---- MODULE Spec2Model ----
\* SDRAM bring-up of the MiSoC BIOS (misoc/software/bios/sdram.c):
\* sdrinit -> init_sequence -> sdrlevel { write_level, read_bitslip,
\* read_delays } -> hardware control -> memtest.
\*
\* The program is sequential; pc is the position in the code.  The PHY is
\* modelled by its registers (phy), the DRAM/board by a per-pin behaviour
\* (env) that is revealed when the pin is first selected, and every register
\* write that matters to a property is counted in log.
EXTENDS Integers, Sequences, FiniteSets, TLC

VARIABLES
    CSR_DDRPHY_BASE,        \* build: the SoC has a DDR PHY (sdram.c:197,565)
    CONFIG_DDRPHY_WLEVEL,   \* build: the PHY has write leveling (sdram.c:205,437)
    CONFIG_KUSDDRPHY,       \* build: Kintex UltraScale PHY (sdram.c:199,312,385)
    pc,                     \* position in the code
    init_done,              \* init_sequence() has run
    dfii_control,           \* last value written to the DFII control CSR
    i, j,                   \* loop counters of the running function
    delay, high_skew,       \* sdrlevel's arrays, indexed by pin
    dq,                     \* write_level: last feedback sample (0 / 1 = non-zero)
    bitslip_thr,            \* read_bitslip's threshold
    rd_delay, delay_min, delay_max, working,   \* read_delays' locals
    wl_ret, level_ret, mem_ret, sdrinit_ret,   \* return values, NotYet before
    phy,                    \* PHY / DRAM state
    log,                    \* counts of the operations issued to the PHY
    report,                 \* what read_delays prints per pin (min, max)
    env,                    \* per-pin behaviour of the board
    mem,                    \* main RAM, one 32-bit value per word offset
    fault,                  \* word offsets whose writes the RAM drops
    seed_32, seed_16, error_cnt,   \* memtest_silent's locals
    mtlog,                  \* memtest_silent's writes, reads and mismatches
    sh,                     \* the operator's commands: DFI registers, output
    root,                   \* liballoc: head of the list of blocks
    heap,                   \* liballoc: the memory cells, headers included
    al,                     \* liballoc: the call in progress
    owned                   \* liballoc: areas given, blocks handed out

vars == << CSR_DDRPHY_BASE, CONFIG_DDRPHY_WLEVEL, CONFIG_KUSDDRPHY, pc,
           init_done, dfii_control, i, j, delay, high_skew, dq, bitslip_thr,
           rd_delay, delay_min, delay_max, working, wl_ret, level_ret,
           mem_ret, sdrinit_ret, phy, log, report, env, mem, fault,
           seed_32, seed_16, error_cnt, mtlog, sh, root, heap, al, owned >>

config == << CSR_DDRPHY_BASE, CONFIG_DDRPHY_WLEVEL, CONFIG_KUSDDRPHY >>
wl_locals == << delay, high_skew, dq, wl_ret >>
rd_locals == << rd_delay, delay_min, delay_max, working, report >>
rets == << level_ret, mem_ret, sdrinit_ret >>
mt_vars == << mem, fault, seed_32, seed_16, error_cnt, mtlog >>
alloc_vars == << root, heap, al, owned >>

----------------------------------------------------------------------------
\* Bounds of the model.

\* Bytes per phase of a DFI sample buffer (generated/sdram_phy.h, not in
\* the sources): the pins are DFII_PIX_DATA_SIZE/2.
DFII_PIX_DATA_SIZE == 4

\* Sizes of memtest_silent's regions, scaled down: the code has 128 words
\* for the data-bus test, TEST_DATA_SIZE 2*1024*1024 and TEST_ADDR_SIZE
\* 32*1024 bytes.  The order 128 < TEST_ADDR_SIZE/4 < TEST_DATA_SIZE/4 is
\* kept.
DataBusWords == 2

\* Commands the operator types after sdrinit.
MaxShellCommands == 1

\* DFI phases (generated/sdram_phy.h).
DFII_NPHASES == 2

\* liballoc: memory cells modelled, calls made, and the width of size_t.
\* A cell holds one field of struct meta.
MemCells == 40
MaxAllocCalls == 6
SizeBits == 8
TEST_DATA_SIZE == 24
TEST_ADDR_SIZE == 12

----------------------------------------------------------------------------
\* Program constants.

ERR_DDRPHY_DELAY == IF CONFIG_KUSDDRPHY THEN 512 ELSE 32

\* Pulses of ddrphy_rdly_dq_bitslip_write per slipped pin.
BitslipPulses == IF CONFIG_KUSDDRPHY THEN 1 ELSE 3

\* Mutant of WorkingZoneStep: one tap too far.
WorkingZoneStep_far == IF CONFIG_KUSDDRPHY THEN 17 ELSE 2

\* Taps read_delays advances past delay_min.
WorkingZoneStep == IF CONFIG_KUSDDRPHY THEN 16 ELSE 1

DFII_CONTROL_SEL == "DFII_CONTROL_SEL"

TEST_DATA_RANDOM == 1
TEST_ADDR_RANDOM == 0

BITSLIP_THR_NONE == 2147483647

\* A return value before the function has returned.
NotYet == 0 - 1

NPins == DFII_PIX_DATA_SIZE \div 2
Pins == 0 .. (NPins - 1)

\* 1 << n
Shl1(n) == 2 ^ n

\* The pins a value of ddrphy_dly_sel selects: one bit per pin.
Selected(mask) == { p \in Pins : (mask \div Shl1(p)) % 2 = 1 }

\* Byte lane of pin p in each phase: write_level samples it, read_delays
\* compares it and lane + DFII_PIX_DATA_SIZE/2.
\* Mutant of LaneOfPin: lane k for pin k.
LaneOfPin_same(p) == p

LaneOfPin(p) == NPins - 1 - p
PinOfLane(l) == NPins - 1 - (l % NPins)

----------------------------------------------------------------------------
\* The board.  A pin's write-leveling feedback is non-zero below tap c and
\* from tap e on; its read-back matches the pattern on taps a..b.

Beyond == 4 * ERR_DDRPHY_DELAY

WlBeh(c, e) == [c |-> c, e |-> e]
Window(a, b) == [a |-> a, b |-> b]

Feedback(b, tap) == IF tap < b.c \/ tap >= b.e THEN 1 ELSE 0
InWindow(w, tap) == w.a <= tap /\ tap <= w.b

StuckLow == WlBeh(0, Beyond)
NoWindow == Window(1, 0)

\* Behaviours the board may show.  The rich families go with the short
\* ceiling; with the 512-tap ceiling, and for read-back after a
\* write-leveling run, a few representative ones are kept.
WlBehaviours ==
    IF CONFIG_KUSDDRPHY
    THEN { WlBeh(0, 1), WlBeh(0, 5), WlBeh(1, 2), WlBeh(2, 5), StuckLow }
    ELSE { WlBeh(0, 1), WlBeh(0, 2), WlBeh(0, 5),
           WlBeh(0, ERR_DDRPHY_DELAY - 1), WlBeh(0, ERR_DDRPHY_DELAY),
           WlBeh(2, 5), WlBeh(1, 2), WlBeh(ERR_DDRPHY_DELAY - 1, Beyond),
           WlBeh(2, Beyond), WlBeh(0, 0), StuckLow }

RdWindows ==
    IF CONFIG_DDRPHY_WLEVEL
    THEN IF CONFIG_KUSDDRPHY
         THEN { Window(3, 9), Window(3, 30) }
         ELSE { Window(3, 9), NoWindow }
    ELSE IF CONFIG_KUSDDRPHY
         THEN { Window(3, 9), Window(3, 30), Window(0, 17), NoWindow }
         ELSE { Window(3, 9), Window(0, 4), Window(5, 5), Window(3, Beyond),
                Window(ERR_DDRPHY_DELAY - 1, Beyond),
                Window(ERR_DDRPHY_DELAY - 2, ERR_DDRPHY_DELAY - 2),
                Window(ERR_DDRPHY_DELAY, Beyond), NoWindow }

----------------------------------------------------------------------------
\* Main RAM and the values memtest_silent stores in it.  A 32-bit value is
\* the pair of its 16-bit halves << high, low >>.

Word(n) == << n \div 65536, n % 65536 >>

\* 0xAAAAAAAA, 0x55555555
ONEZERO == << 43690, 43690 >>
ZEROONE == << 21845, 21845 >>

\* What the RAM holds before it is written: 0xDEADBEEF, or zeroes.
Garbage == << 57005, 48879 >>

\* 1664525*seed + 1013904223 modulo 2^32:
\* 1664525 = 25 * 2^16 + 26125, 1013904223 = 15470 * 2^16 + 62303.
Lcg32(w) ==
    LET lo == w[2] * 26125 + 62303
        hi == w[1] * 26125 + w[2] * 25 + 15470 + (lo \div 65536)
    IN  << hi % 65536, lo % 65536 >>

\* seed + 1 modulo 2^32
Succ32(w) ==
    IF w[2] = 65535 THEN << (w[1] + 1) % 65536, 0 >> ELSE << w[1], w[2] + 1 >>

seed_to_data_32(seed, random) ==
    IF random # 0 THEN Lcg32(seed) ELSE Succ32(seed)

seed_to_data_16(seed, random) ==
    IF random # 0 THEN (25173 * seed + 13849) % 65536 ELSE (seed + 1) % 65536

\* The word offsets of the RAM: the tested region and one word after it.
RamWords == 0 .. (TEST_DATA_SIZE \div 4)

\* The RAM's faults: the word offsets whose writes are dropped.
MemFaults ==
    IF CSR_DDRPHY_BASE
    THEN { {}, {1} }
    ELSE { {}, {0}, {1}, {TEST_ADDR_SIZE \div 4}, {(TEST_DATA_SIZE \div 4) - 1},
           RamWords }

InitialWords == IF CSR_DDRPHY_BASE THEN { Garbage } ELSE { Garbage, Word(0) }

\* array[k] = v;  v = array[k]
MemWrite(m, k, v) == IF k \in fault THEN m ELSE [m EXCEPT ![k] = v]
MemRead(m, k) == m[k]

Tests == { "bus1", "bus2", "data", "addr" }
NoTests == [t \in Tests |-> 0]
Bump(f, t) == [f EXCEPT ![t] = @ + 1]

----------------------------------------------------------------------------
\* The operator's arguments and strtoul (libbase).  A string is the sequence
\* of its characters; the character at its end is NUL, written "".

ArgStrings == { << >>, << "0" >>, << "1", "x" >>, << "0", "x", "1" >> }

CharAt(str, k) == IF k >= 1 /\ k <= Len(str) THEN str[k] ELSE ""

DecDigits == { "0", "1", "2", "3", "4", "5", "6", "7", "8", "9" }
HexLetters == { "a", "b", "c", "d", "e", "f", "A", "B", "C", "D", "E", "F" }
isdigit(c) == c \in DecDigits
isxdigit(c) == c \in DecDigits \cup HexLetters

\* *nptr-'0', or toupper(*nptr)-'A'+10
DigitValue(c) ==
    CASE c = "0" -> 0 [] c = "1" -> 1 [] c = "2" -> 2 [] c = "3" -> 3
      [] c = "4" -> 4 [] c = "5" -> 5 [] c = "6" -> 6 [] c = "7" -> 7
      [] c = "8" -> 8 [] c = "9" -> 9
      [] c \in { "a", "A" } -> 10 [] c \in { "b", "B" } -> 11
      [] c \in { "c", "C" } -> 12 [] c \in { "d", "D" } -> 13
      [] c \in { "e", "E" } -> 14 [] c \in { "f", "F" } -> 15
      [] OTHER -> 99

\* strtoul(nptr, &c, 0): the base from the prefix, then the digits below the
\* base; end is the position c is left at (Len + 1: the NUL).
strtoul(nptr) ==
    LET hex == /\ CharAt(nptr, 1) = "0"
               /\ CharAt(nptr, 2) \in { "x", "X" }
               /\ isxdigit(CharAt(nptr, 3))
        base == IF CharAt(nptr, 1) # "0" THEN 10 ELSE IF hex THEN 16 ELSE 8
        start == IF CharAt(nptr, 1) # "0" THEN 1 ELSE IF hex THEN 3 ELSE 2
        Taken(k) == isxdigit(CharAt(nptr, k)) /\ DigitValue(CharAt(nptr, k)) < base
        end == CHOOSE k \in start .. (Len(nptr) + 1) :
                   /\ ~Taken(k)
                   /\ \A m \in start .. (k - 1) : Taken(m)
        acc[k \in (start - 1) .. (end - 1)] ==
            IF k = start - 1 THEN 0
            ELSE (acc[k - 1] * base + DigitValue(nptr[k])) % 65536
    IN  [ result |-> acc[end - 1], end |-> end ]

\* *c != 0 after strtoul
Trailing(str) == strtoul(str).end <= Len(str)

\* The write buffers: byte lane i of phase p.
Lanes == 0 .. (DFII_PIX_DATA_SIZE - 1)
WrBuffer == (0 .. (DFII_NPHASES - 1)) \X Lanes
NotWritten == 0 - 1

----------------------------------------------------------------------------
\* liballoc.  Memory is a row of cells, each the size of one field of
\* struct meta; addresses and sizes count cells.

\* sizeof(struct meta): magi, size, next
SIZEOF_META == 3
FILL == SIZEOF_META

\* 0xFEED..., 0xDEAD...
BUSY == 65261
IDLE == 57005

NULL == 0

\* What memory holds before anything is written to it.
Junk == 170

Cells == 0 .. (MemCells - 1)
SizeMod == 2 ^ SizeBits

LIST(x) == x - SIZEOF_META
DATA(x) == x + SIZEOF_META

\* list->magi, list->size, list->next in memory h
Magi(h, list) == h[list]
Size(h, list) == h[list + 1]
NextOf(h, list) == h[list + 2]

\* A header lies within the cells modelled.
InCells(list) == list >= 1 /\ list + 2 < MemCells

\* The areas the program hands to alloc_give: two apart from each other,
\* and one too small to be used.
Areas == { [base |-> 1, size |-> 9], [base |-> 14, size |-> 9],
           [base |-> 30, size |-> 5] }
AreaCells(a) == a.base .. (a.base + a.size - 1)

\* Request sizes; the last is the largest size_t.
Sizes == { 1, 4, 7, SizeMod - 1 }
CallocArgs == { << 1, 1 >>, << 2, 2 >> }

\* size += FILL - (size % FILL), in size_t
RoundUp(size) == (size + FILL - (size % FILL)) % SizeMod

\* memset(p, 0, n) and memcpy(to, from, n) on memory h
Memset0(h, p, n) ==
    [c \in Cells |-> IF c >= p /\ c < p + n THEN 0 ELSE h[c]]
Memcpy(h, to, from, n) ==
    [c \in Cells |->
        IF c >= to /\ c < to + n /\ (from + (c - to)) \in Cells
        THEN h[from + (c - to)] ELSE h[c]]

----------------------------------------------------------------------------
\* PHY operations: they act on the pins ddrphy_dly_sel selects.

ResetSelected(sel, f) ==
    [p \in Pins |-> IF p \in Selected(sel) THEN 0 ELSE f[p]]
AddSelected(sel, f, n) ==
    [p \in Pins |-> IF p \in Selected(sel) THEN f[p] + n ELSE f[p]]

Count(l, what) == [l EXCEPT ![what] = @ + 1]
CountSel(l, what, sel) == [l EXCEPT ![what] = AddSelected(sel, @, 1)]

ZeroPins == [p \in Pins |-> 0]

Init ==
    /\ CSR_DDRPHY_BASE \in BOOLEAN
    /\ CONFIG_DDRPHY_WLEVEL \in BOOLEAN
    /\ CONFIG_KUSDDRPHY \in BOOLEAN
    /\ CSR_DDRPHY_BASE = FALSE => (~CONFIG_DDRPHY_WLEVEL /\ ~CONFIG_KUSDDRPHY)
    /\ pc = "sdrinit"
    /\ init_done = FALSE
    /\ dfii_control = "reset"
    /\ i = 0 /\ j = 0
    /\ delay = ZeroPins /\ high_skew = ZeroPins
    /\ dq = 0
    /\ bitslip_thr = 0
    /\ rd_delay = 0 /\ delay_min = 0 /\ delay_max = 0 /\ working = 0
    /\ wl_ret = NotYet /\ level_ret = NotYet /\ mem_ret = NotYet
    /\ sdrinit_ret = NotYet
    /\ phy = [ dly_sel |-> 0, wdly_dq |-> ZeroPins, wdly_dqs |-> ZeroPins,
               rdly |-> ZeroPins, wlevel_en |-> 0, mr1_wl |-> FALSE,
               row_open |-> FALSE, pattern |-> FALSE, settled |-> TRUE ]
    /\ log = [ mrs |-> 0, act |-> 0, wr |-> 0, pre |-> 0, sel |-> 0,
               rd |-> ZeroPins, strobe |-> ZeroPins, wrst |-> ZeroPins,
               rrst |-> ZeroPins, bitslip |-> ZeroPins ]
    /\ report = [p \in Pins |-> << 0, 0 >>]
    /\ env = [ wl |-> [p \in Pins |-> StuckLow],
               rd |-> [p \in Pins |-> NoWindow] ]
    /\ mem = [k \in RamWords |-> Garbage]
    /\ fault = {}
    /\ seed_32 = Word(0) /\ seed_16 = 0 /\ error_cnt = 0
    /\ root = NULL
    /\ heap = [c \in Cells |-> Junk]
    /\ al = [ pc |-> "prompt", op |-> "", n |-> 0, size |-> 0, list |-> NULL,
              oldp |-> NULL, objp |-> NULL, result |-> NULL, calls |-> 0 ]
    /\ owned = [ given |-> {}, blocks |-> {}, returned |-> {} ]
    /\ sh = [ n |-> 0, cmd |-> "", args |-> << >>, out |-> "",
              pi0_address |-> 0, pi0_baddress |-> 0,
              pird_address |-> 0, pird_baddress |-> 0,
              piwr_address |-> 0, piwr_baddress |-> 0,
              wrdata |-> [b \in WrBuffer |-> NotWritten],
              regw |-> 0, bufw |-> 0, ncmd |-> 0,
              lanes |-> {}, labels |-> << >> ]
    /\ mtlog = [ written |-> NoTests, checked |-> NoTests, bad |-> NoTests,
                 wval |-> << >>, rval |-> << >>,
                 woff |-> << >>, roff |-> << >> ]

----------------------------------------------------------------------------
\* sdrinit, up to the call of sdrlevel.

init_sequence ==
    /\ pc = "sdrinit"
    /\ init_done' = TRUE
    /\ pc' = IF CSR_DDRPHY_BASE THEN "sdrlevel" ELSE "sdrinit_hw"
    /\ UNCHANGED << config, sh, alloc_vars, mt_vars, dfii_control, i, j, wl_locals, bitslip_thr,
                    rd_locals, rets, phy, log, env >>

\* sdrlevel's entry: without write leveling the arrays are zeroed.
sdrlevel_entry ==
    /\ pc = "sdrlevel"
    /\ IF CONFIG_DDRPHY_WLEVEL
       THEN /\ pc' = "sdrwlon"
            /\ UNCHANGED << delay, high_skew >>
       ELSE /\ delay' = ZeroPins
            /\ high_skew' = ZeroPins
            /\ pc' = "read_bitslip"
    /\ UNCHANGED << config, sh, alloc_vars, mt_vars, init_done, dfii_control, i, j, dq, wl_ret,
                    bitslip_thr, rd_locals, rets, phy, log, env >>

----------------------------------------------------------------------------
\* write_level (CONFIG_DDRPHY_WLEVEL).

\* What write_level and read_bitslip leave alone.
WlFrame ==
    UNCHANGED << config, sh, alloc_vars, mt_vars, init_done, dfii_control, j, bitslip_thr, rd_locals,
                 rets >>

\* The byte write_level reads from lane DFII_PIX_DATA_SIZE/2-1-i of phase 0
\* after a strobe: the leveling feedback of that lane's pin at its DQS tap,
\* driven only while leveling mode is on.
WlSample ==
    LET p == PinOfLane(LaneOfPin(i))
    IN  IF phy.wlevel_en = 1 /\ phy.mr1_wl
        THEN Feedback(env.wl[p], phy.wdly_dqs[p])
        ELSE 0

\* ddrphy_wlevel_strobe_write(1)
WlStrobe(at, next) ==
    /\ pc = at
    /\ phy' = [phy EXCEPT !.settled = FALSE]
    /\ log' = CountSel(log, "strobe", phy.dly_sel)
    /\ pc' = next
    /\ UNCHANGED << i, wl_locals, env >>
    /\ WlFrame

\* cdelay(n)
WlCdelay(at, next) ==
    /\ pc = at
    /\ phy' = [phy EXCEPT !.settled = TRUE]
    /\ pc' = next
    /\ UNCHANGED << i, wl_locals, log, env >>
    /\ WlFrame

\* Mutant of WlInc: only the DQ line is incremented.
WlInc_dq_only(at, next) ==
    /\ pc = at
    /\ phy' = [phy EXCEPT !.wdly_dq = AddSelected(phy.dly_sel, @, 1)]
    /\ pc' = next
    /\ UNCHANGED << i, wl_locals, log, env >>
    /\ WlFrame

\* ddrphy_wdly_dq_inc_write(1); ddrphy_wdly_dqs_inc_write(1)
WlInc(at, next) ==
    /\ pc = at
    /\ phy' = [phy EXCEPT !.wdly_dq = AddSelected(phy.dly_sel, @, 1),
                          !.wdly_dqs = AddSelected(phy.dly_sel, @, 1)]
    /\ pc' = next
    /\ UNCHANGED << i, wl_locals, log, env >>
    /\ WlFrame

\* dq = MMPTR(dq_address)
WlRead(at, next) ==
    /\ pc = at
    /\ dq' = WlSample
    /\ pc' = next
    /\ UNCHANGED << i, delay, high_skew, wl_ret, phy, log, env >>
    /\ WlFrame

\* sdrwlon(): MR1 with the leveling bit, ddrphy_wlevel_en_write(1).
sdrwlon ==
    /\ pc = "sdrwlon"
    /\ phy' = [phy EXCEPT !.mr1_wl = TRUE, !.wlevel_en = 1, !.settled = FALSE]
    /\ log' = Count(log, "mrs")
    /\ pc' = "wl_cdelay100"
    /\ UNCHANGED << i, wl_locals, env >>
    /\ WlFrame

wl_cdelay100 ==
    /\ pc = "wl_cdelay100"
    /\ phy' = [phy EXCEPT !.settled = TRUE]
    /\ i' = 0
    /\ pc' = "wl_loop"
    /\ UNCHANGED << wl_locals, log, env >>
    /\ WlFrame

\* for(i...) { select pin i, reset its DQ and DQS delays, delay[i] = 0
wl_loop ==
    /\ pc = "wl_loop"
    /\ IF i < NPins
       THEN LET sel == Shl1(i)
            IN  /\ phy' = [phy EXCEPT !.dly_sel = sel,
                                      !.wdly_dq = ResetSelected(sel, @),
                                      !.wdly_dqs = ResetSelected(sel, @)]
                /\ log' = CountSel(Count(log, "sel"), "wrst", sel)
                /\ delay' = [delay EXCEPT ![i] = 0]
                /\ \E b \in WlBehaviours : env' = [env EXCEPT !.wl[i] = b]
                /\ pc' = "wl_strobe0"
       ELSE /\ pc' = "sdrwloff"
            /\ UNCHANGED << phy, log, delay, env >>
    /\ UNCHANGED << i, high_skew, dq, wl_ret >>
    /\ WlFrame

wl_strobe0 == WlStrobe("wl_strobe0", "wl_cdelay0")
wl_cdelay0 == WlCdelay("wl_cdelay0", "wl_read0")
wl_read0 == WlRead("wl_read0", "wl_first")

\* if(dq != 0) high_skew[i] = 1; else high_skew[i] = 0;
wl_first ==
    /\ pc = "wl_first"
    /\ high_skew' = [high_skew EXCEPT ![i] = IF dq # 0 THEN 1 ELSE 0]
    /\ pc' = IF dq # 0 THEN "wl_pre_test" ELSE "wl_main_test"
    /\ UNCHANGED << i, delay, dq, wl_ret, phy, log, env >>
    /\ WlFrame

\* Mutant of wl_pre_test: the count restarts when the feedback has cleared.
wl_pre_test_restart ==
    /\ pc = "wl_pre_test"
    /\ IF dq # 0
       THEN /\ delay' = [delay EXCEPT ![i] = @ + 1]
            /\ pc' = IF delay'[i] >= ERR_DDRPHY_DELAY
                     THEN "wl_main_test" ELSE "wl_pre_inc"
       ELSE /\ pc' = "wl_main_test"
            /\ delay' = [delay EXCEPT ![i] = 0]
    /\ UNCHANGED << i, high_skew, dq, wl_ret, phy, log, env >>
    /\ WlFrame

\* while(dq != 0) { delay[i]++; if(delay[i] >= ERR_DDRPHY_DELAY) break;
wl_pre_test ==
    /\ pc = "wl_pre_test"
    /\ IF dq # 0
       THEN /\ delay' = [delay EXCEPT ![i] = @ + 1]
            /\ pc' = IF delay'[i] >= ERR_DDRPHY_DELAY
                     THEN "wl_main_test" ELSE "wl_pre_inc"
       ELSE /\ pc' = "wl_main_test"
            /\ UNCHANGED delay
    /\ UNCHANGED << i, high_skew, dq, wl_ret, phy, log, env >>
    /\ WlFrame

wl_pre_inc == WlInc("wl_pre_inc", "wl_pre_strobe")
wl_pre_strobe == WlStrobe("wl_pre_strobe", "wl_pre_cdelay")
wl_pre_cdelay == WlCdelay("wl_pre_cdelay", "wl_pre_read")
wl_pre_read == WlRead("wl_pre_read", "wl_pre_test")

\* Mutant of wl_main_test: a pin at the ceiling ends the leveling.
wl_main_test_abort ==
    /\ pc = "wl_main_test"
    /\ IF dq = 0
       THEN /\ delay' = [delay EXCEPT ![i] = @ + 1]
            /\ IF delay'[i] >= ERR_DDRPHY_DELAY
               THEN pc' = "sdrwloff" /\ i' = i + 1
               ELSE pc' = "wl_main_inc" /\ i' = i
       ELSE /\ pc' = "wl_loop"
            /\ i' = i + 1
            /\ UNCHANGED delay
    /\ UNCHANGED << high_skew, dq, wl_ret, phy, log, env >>
    /\ WlFrame

\* Mutant of wl_main_test: > for >= at the ceiling.
wl_main_test_gt ==
    /\ pc = "wl_main_test"
    /\ IF dq = 0
       THEN /\ delay' = [delay EXCEPT ![i] = @ + 1]
            /\ IF delay'[i] > ERR_DDRPHY_DELAY
               THEN pc' = "wl_loop" /\ i' = i + 1
               ELSE pc' = "wl_main_inc" /\ i' = i
       ELSE /\ pc' = "wl_loop"
            /\ i' = i + 1
            /\ UNCHANGED delay
    /\ UNCHANGED << high_skew, dq, wl_ret, phy, log, env >>
    /\ WlFrame

\* while(dq == 0) { delay[i]++; if(delay[i] >= ERR_DDRPHY_DELAY) break;
\* and, when the loop is left, the for loop's i++.
wl_main_test ==
    /\ pc = "wl_main_test"
    /\ IF dq = 0
       THEN /\ delay' = [delay EXCEPT ![i] = @ + 1]
            /\ IF delay'[i] >= ERR_DDRPHY_DELAY
               THEN pc' = "wl_loop" /\ i' = i + 1
               ELSE pc' = "wl_main_inc" /\ i' = i
       ELSE /\ pc' = "wl_loop"
            /\ i' = i + 1
            /\ UNCHANGED delay
    /\ UNCHANGED << high_skew, dq, wl_ret, phy, log, env >>
    /\ WlFrame

wl_main_inc == WlInc("wl_main_inc", "wl_main_strobe")
wl_main_strobe == WlStrobe("wl_main_strobe", "wl_main_cdelay")
wl_main_cdelay == WlCdelay("wl_main_cdelay", "wl_main_read")
wl_main_read == WlRead("wl_main_read", "wl_main_test")

\* Mutant of sdrwloff: wlevel_en is left set.
sdrwloff_keep_en ==
    /\ pc = "sdrwloff"
    /\ phy' = [phy EXCEPT !.mr1_wl = FALSE, !.settled = FALSE]
    /\ log' = Count(log, "mrs")
    /\ pc' = "wl_report"
    /\ UNCHANGED << i, wl_locals, env >>
    /\ WlFrame

\* sdrwloff(): MR1 without the leveling bit, ddrphy_wlevel_en_write(0).
sdrwloff ==
    /\ pc = "sdrwloff"
    /\ phy' = [phy EXCEPT !.mr1_wl = FALSE, !.wlevel_en = 0, !.settled = FALSE]
    /\ log' = Count(log, "mrs")
    /\ pc' = "wl_report"
    /\ UNCHANGED << i, wl_locals, env >>
    /\ WlFrame

\* Mutant of WlOk: > for >=.
WlOk_gt(d) == IF \E p \in Pins : d[p] > ERR_DDRPHY_DELAY THEN 0 ELSE 1

\* ok = 1; for(...) if(delay[i] >= ERR_DDRPHY_DELAY) ok = 0; return ok;
WlOk(d) == IF \E p \in Pins : d[p] >= ERR_DDRPHY_DELAY THEN 0 ELSE 1

wl_report ==
    /\ pc = "wl_report"
    /\ wl_ret' = WlOk(delay)
    /\ pc' = "sdrlevel_wl"
    /\ UNCHANGED << i, delay, high_skew, dq, phy, log, env >>
    /\ WlFrame

\* Mutant of sdrlevel_wl: the result of write_level is not looked at.
sdrlevel_wl_noabort ==
    /\ pc = "sdrlevel_wl"
    /\ level_ret' = level_ret
    /\ pc' = "read_bitslip"
    /\ UNCHANGED << config, sh, alloc_vars, mt_vars, init_done, dfii_control, i, j, wl_locals,
                    bitslip_thr, rd_locals, mem_ret, sdrinit_ret, phy, log,
                    env >>

\* sdrlevel: if(!write_level(delay, high_skew)) return 0;
sdrlevel_wl ==
    /\ pc = "sdrlevel_wl"
    /\ IF wl_ret = 0
       THEN level_ret' = 0 /\ pc' = "sdrinit_level"
       ELSE level_ret' = level_ret /\ pc' = "read_bitslip"
    /\ UNCHANGED << config, sh, alloc_vars, mt_vars, init_done, dfii_control, i, j, wl_locals,
                    bitslip_thr, rd_locals, mem_ret, sdrinit_ret, phy, log,
                    env >>

----------------------------------------------------------------------------
\* read_bitslip

\* Mutant of MinSkewDelay: high_skew is not looked at.
MinSkewDelay_all(d, hs) ==
    LET S == { d[p] : p \in { q \in Pins : d[q] < BITSLIP_THR_NONE } }
    IN  IF S = {} THEN BITSLIP_THR_NONE
        ELSE CHOOSE m \in S : \A x \in S : m <= x

\* bitslip_thr after the first loop: the least delay of a high_skew pin.
MinSkewDelay(d, hs) ==
    LET S == { d[p] : p \in { q \in Pins : hs[q] # 0 /\ d[q] < BITSLIP_THR_NONE } }
    IN  IF S = {} THEN BITSLIP_THR_NONE
        ELSE CHOOSE m \in S : \A x \in S : m <= x

\* Mutant of read_bitslip: the threshold is not halved.
read_bitslip_nohalf ==
    /\ pc = "read_bitslip"
    /\ LET thr == MinSkewDelay(delay, high_skew)
       IN  IF thr = BITSLIP_THR_NONE
           THEN /\ bitslip_thr' = thr
                /\ pc' = "read_delays"
                /\ i' = i
           ELSE /\ bitslip_thr' = thr
                /\ i' = NPins - 1
                /\ pc' = "bitslip_loop"
    /\ UNCHANGED << config, sh, alloc_vars, mt_vars, init_done, dfii_control, j, wl_locals, rd_locals,
                    rets, phy, log, env >>

read_bitslip ==
    /\ pc = "read_bitslip"
    /\ LET thr == MinSkewDelay(delay, high_skew)
       IN  IF thr = BITSLIP_THR_NONE
           THEN /\ bitslip_thr' = thr
                /\ pc' = "read_delays"
                /\ i' = i
           ELSE /\ bitslip_thr' = thr \div 2
                /\ i' = NPins - 1
                /\ pc' = "bitslip_loop"
    /\ UNCHANGED << config, sh, alloc_vars, mt_vars, init_done, dfii_control, j, wl_locals, rd_locals,
                    rets, phy, log, env >>

\* Mutant of Slip: >= for >.
Slip_ge(d, thr) == d >= thr

\* for(i=DFII_PIX_DATA_SIZE/2-1;i>=0;i--) if(delay[i] > bitslip_thr) { ... }
Slip(d, thr) == d > thr

bitslip_loop ==
    /\ pc = "bitslip_loop"
    /\ IF i >= 0
       THEN /\ IF Slip(delay[i], bitslip_thr)
               THEN /\ phy' = [phy EXCEPT !.dly_sel = Shl1(i)]
                    /\ log' = [Count(log, "sel") EXCEPT !.bitslip =
                                 AddSelected(Shl1(i), @, BitslipPulses)]
               ELSE UNCHANGED << phy, log >>
            /\ i' = i - 1
            /\ pc' = pc
       ELSE /\ pc' = "read_delays"
            /\ UNCHANGED << i, phy, log >>
    /\ UNCHANGED << config, sh, alloc_vars, mt_vars, init_done, dfii_control, j, wl_locals,
                    bitslip_thr, rd_locals, rets, env >>

----------------------------------------------------------------------------
\* read_delays

RdFrame ==
    UNCHANGED << config, sh, alloc_vars, mt_vars, init_done, dfii_control, wl_locals, bitslip_thr,
                 rets >>

\* The test pattern is read back on a lane when the row is open, the
\* pattern was written to it and the lane's pin samples inside its window.
LaneMatches(l) ==
    /\ phy.row_open
    /\ phy.pattern
    /\ InWindow(env.rd[PinOfLane(l)], phy.rdly[PinOfLane(l)])

\* working = 1; for(p...) { lane i and lane i+DFII_PIX_DATA_SIZE/2 of every
\* phase against prs }
Working(k) == IF LaneMatches(k) /\ LaneMatches(k + NPins) THEN 1 ELSE 0

\* command_prd(...), counted for the pin being calibrated
RdCommand(at, next) ==
    /\ pc = at
    /\ phy' = [phy EXCEPT !.settled = FALSE]
    /\ log' = CountSel(log, "rd", phy.dly_sel)
    /\ pc' = next
    /\ UNCHANGED << i, j, rd_locals, env >>
    /\ RdFrame

RdCdelay(at, next) ==
    /\ pc = at
    /\ phy' = [phy EXCEPT !.settled = TRUE]
    /\ pc' = next
    /\ UNCHANGED << i, j, rd_locals, log, env >>
    /\ RdFrame

\* ddrphy_rdly_dq_inc_write(1)
RdInc(at, next) ==
    /\ pc = at
    /\ phy' = [phy EXCEPT !.rdly = AddSelected(phy.dly_sel, @, 1)]
    /\ pc' = next
    /\ UNCHANGED << i, j, rd_locals, log, env >>
    /\ RdFrame

\* Generate the pattern, then activate row 0 of bank 0.
rd_activate ==
    /\ pc = "read_delays"
    /\ phy' = [phy EXCEPT !.row_open = TRUE, !.settled = FALSE]
    /\ log' = Count(log, "act")
    /\ pc' = "rd_cdelay_act"
    /\ UNCHANGED << i, j, rd_locals, env >>
    /\ RdFrame

rd_cdelay_act == RdCdelay("rd_cdelay_act", "rd_write")

\* Fill the write buffers with the pattern, command_pwr(...), i = 0.
rd_write ==
    /\ pc = "rd_write"
    /\ phy' = [phy EXCEPT !.pattern = phy.row_open, !.settled = FALSE]
    /\ log' = Count(log, "wr")
    /\ i' = 0
    /\ pc' = "rd_loop"
    /\ UNCHANGED << j, rd_locals, env >>
    /\ RdFrame

\* Mutant of rd_loop: dly_sel selects every pin.
rd_loop_all ==
    /\ pc = "rd_loop"
    /\ IF i < NPins
       THEN LET sel == Shl1(NPins) - 1
            IN  /\ phy' = [phy EXCEPT !.dly_sel = sel,
                                      !.rdly = ResetSelected(sel, @)]
                /\ log' = CountSel(Count(log, "sel"), "rrst", sel)
                /\ rd_delay' = 0
                /\ \E w \in RdWindows :
                       env' = [env EXCEPT !.rd[NPins - i - 1] = w]
                /\ pc' = "rd_min_cmd"
       ELSE /\ pc' = "rd_precharge"
            /\ UNCHANGED << phy, log, rd_delay, env >>
    /\ UNCHANGED << i, j, delay_min, delay_max, working, report >>
    /\ RdFrame

\* for(i...) { select pin DFII_PIX_DATA_SIZE/2-i-1; delay = 0; reset it
rd_loop ==
    /\ pc = "rd_loop"
    /\ IF i < NPins
       THEN LET sel == Shl1(NPins - i - 1)
            IN  /\ phy' = [phy EXCEPT !.dly_sel = sel,
                                      !.rdly = ResetSelected(sel, @)]
                /\ log' = CountSel(Count(log, "sel"), "rrst", sel)
                /\ rd_delay' = 0
                /\ \E w \in RdWindows :
                       env' = [env EXCEPT !.rd[NPins - i - 1] = w]
                /\ pc' = "rd_min_cmd"
       ELSE /\ pc' = "rd_precharge"
            /\ UNCHANGED << phy, log, rd_delay, env >>
    /\ UNCHANGED << i, j, delay_min, delay_max, working, report >>
    /\ RdFrame

rd_min_cmd == RdCommand("rd_min_cmd", "rd_min_cdelay")
rd_min_cdelay == RdCdelay("rd_min_cdelay", "rd_min_test")

\* Mutant of rd_min_test: > for >= at the ceiling.
rd_min_test_gt ==
    /\ pc = "rd_min_test"
    /\ working' = Working(i)
    /\ IF working' # 0
       THEN pc' = "rd_step" /\ rd_delay' = rd_delay
       ELSE /\ rd_delay' = rd_delay + 1
            /\ pc' = IF rd_delay' > ERR_DDRPHY_DELAY
                     THEN "rd_step" ELSE "rd_min_inc"
    /\ UNCHANGED << i, j, delay_min, delay_max, report, phy, log, env >>
    /\ RdFrame

\* Mutant of rd_min_test: read_delays gives up at the first pin that reaches
\* the ceiling.
rd_min_test_stop ==
    /\ pc = "rd_min_test"
    /\ working' = Working(i)
    /\ IF working' # 0
       THEN pc' = "rd_step" /\ rd_delay' = rd_delay
       ELSE /\ rd_delay' = rd_delay + 1
            /\ pc' = IF rd_delay' >= ERR_DDRPHY_DELAY
                     THEN "rd_precharge" ELSE "rd_min_inc"
    /\ UNCHANGED << i, j, delay_min, delay_max, report, phy, log, env >>
    /\ RdFrame

\* compare; if(working) break; delay++; if(delay >= ERR_DDRPHY_DELAY) break;
rd_min_test ==
    /\ pc = "rd_min_test"
    /\ working' = Working(i)
    /\ IF working' # 0
       THEN pc' = "rd_step" /\ rd_delay' = rd_delay
       ELSE /\ rd_delay' = rd_delay + 1
            /\ pc' = IF rd_delay' >= ERR_DDRPHY_DELAY
                     THEN "rd_step" ELSE "rd_min_inc"
    /\ UNCHANGED << i, j, delay_min, delay_max, report, phy, log, env >>
    /\ RdFrame

rd_min_inc == RdInc("rd_min_inc", "rd_min_cmd")

\* delay_min = delay; then get a bit further into the working zone.
rd_step ==
    /\ pc = "rd_step"
    /\ delay_min' = rd_delay
    /\ rd_delay' = rd_delay + WorkingZoneStep
    /\ phy' = [phy EXCEPT !.rdly = AddSelected(phy.dly_sel, @, WorkingZoneStep)]
    /\ pc' = "rd_max_cmd"
    /\ UNCHANGED << i, j, delay_max, working, report, log, env >>
    /\ RdFrame

rd_max_cmd == RdCommand("rd_max_cmd", "rd_max_cdelay")
rd_max_cdelay == RdCdelay("rd_max_cdelay", "rd_max_test")

\* compare; if(!working) break; delay++; if(delay >= ERR_DDRPHY_DELAY) break;
rd_max_test ==
    /\ pc = "rd_max_test"
    /\ working' = Working(i)
    /\ IF working' = 0
       THEN pc' = "rd_middle" /\ rd_delay' = rd_delay
       ELSE /\ rd_delay' = rd_delay + 1
            /\ pc' = IF rd_delay' >= ERR_DDRPHY_DELAY
                     THEN "rd_middle" ELSE "rd_max_inc"
    /\ UNCHANGED << i, j, delay_min, delay_max, report, phy, log, env >>
    /\ RdFrame

rd_max_inc == RdInc("rd_max_inc", "rd_max_cmd")

\* Mutant of rd_middle: the row is precharged after each pin.
rd_middle_precharge ==
    /\ pc = "rd_middle"
    /\ delay_max' = rd_delay
    /\ report' = [report EXCEPT ![NPins - i - 1] = << delay_min, rd_delay >>]
    /\ phy' = [phy EXCEPT !.rdly = ResetSelected(phy.dly_sel, @),
                          !.row_open = FALSE]
    /\ log' = Count(CountSel(log, "rrst", phy.dly_sel), "pre")
    /\ j' = 0
    /\ pc' = "rd_set"
    /\ UNCHANGED << i, rd_delay, delay_min, working, env >>
    /\ RdFrame

\* delay_max = delay; printf(...); reset the pin's read delay; j = 0.
rd_middle ==
    /\ pc = "rd_middle"
    /\ delay_max' = rd_delay
    /\ report' = [report EXCEPT ![NPins - i - 1] = << delay_min, rd_delay >>]
    /\ phy' = [phy EXCEPT !.rdly = ResetSelected(phy.dly_sel, @)]
    /\ log' = CountSel(log, "rrst", phy.dly_sel)
    /\ j' = 0
    /\ pc' = "rd_set"
    /\ UNCHANGED << i, rd_delay, delay_min, working, env >>
    /\ RdFrame

\* Mutant of Middle: the tap is set to the upper bound.
Middle_hi(lo, hi) == hi

\* for(j=0;j<(delay_min+delay_max)/2;j++) ddrphy_rdly_dq_inc_write(1);
Middle(lo, hi) == (lo + hi) \div 2

rd_set ==
    /\ pc = "rd_set"
    /\ IF j < Middle(delay_min, delay_max)
       THEN /\ phy' = [phy EXCEPT !.rdly = AddSelected(phy.dly_sel, @, 1)]
            /\ j' = j + 1
            /\ UNCHANGED << pc, i >>
       ELSE /\ i' = i + 1
            /\ pc' = "rd_loop"
            /\ UNCHANGED << phy, j >>
    /\ UNCHANGED << rd_locals, log, env >>
    /\ RdFrame

rd_precharge ==
    /\ pc = "rd_precharge"
    /\ phy' = [phy EXCEPT !.row_open = FALSE, !.settled = FALSE]
    /\ log' = Count(log, "pre")
    /\ pc' = "rd_cdelay_pre"
    /\ UNCHANGED << i, j, rd_locals, env >>
    /\ RdFrame

rd_cdelay_pre == RdCdelay("rd_cdelay_pre", "sdrlevel_ret")

----------------------------------------------------------------------------
\* sdrlevel's return after read_delays, and the rest of sdrinit.

\* read_delays(); return 1;
sdrlevel_ret ==
    /\ pc = "sdrlevel_ret"
    /\ level_ret' = 1
    /\ pc' = "sdrinit_level"
    /\ UNCHANGED << config, sh, alloc_vars, mt_vars, init_done, dfii_control, i, j, wl_locals,
                    bitslip_thr, rd_locals, mem_ret, sdrinit_ret, phy, log,
                    env >>

\* Mutant of sdrinit_level: the result of sdrlevel is not looked at.
sdrinit_level_ignore ==
    /\ pc = "sdrinit_level"
    /\ sdrinit_ret' = sdrinit_ret
    /\ pc' = "sdrinit_hw"
    /\ UNCHANGED << config, sh, alloc_vars, mt_vars, init_done, dfii_control, i, j, wl_locals,
                    bitslip_thr, rd_locals, level_ret, mem_ret, phy, log,
                    env >>

\* if(!sdrlevel()) return 0;
sdrinit_level ==
    /\ pc = "sdrinit_level"
    /\ IF level_ret = 0
       THEN sdrinit_ret' = 0 /\ pc' = "done"
       ELSE sdrinit_ret' = sdrinit_ret /\ pc' = "sdrinit_hw"
    /\ UNCHANGED << config, sh, alloc_vars, mt_vars, init_done, dfii_control, i, j, wl_locals,
                    bitslip_thr, rd_locals, level_ret, mem_ret, phy, log,
                    env >>

\* dfii_control_write(DFII_CONTROL_SEL);
sdrinit_hw ==
    /\ pc = "sdrinit_hw"
    /\ dfii_control' = DFII_CONTROL_SEL
    /\ pc' = "memtest"
    /\ UNCHANGED << config, sh, alloc_vars, mt_vars, init_done, i, j, wl_locals, bitslip_thr,
                    rd_locals, rets, phy, log, env >>

----------------------------------------------------------------------------
\* memtest_silent

MtFrame ==
    UNCHANGED << config, sh, alloc_vars, init_done, dfii_control, j, wl_locals, bitslip_thr,
                 rd_locals, rets, phy, log, env >>

\* error_cnt = 0; the RAM shows its content and its faults.
memtest_silent ==
    /\ pc = "memtest"
    /\ error_cnt' = 0
    /\ \E f \in MemFaults : fault' = f
    /\ \E w \in InitialWords : mem' = [k \in RamWords |-> w]
    /\ i' = 0
    /\ pc' = "mt_bus1_write"
    /\ UNCHANGED << seed_32, seed_16, mtlog >>
    /\ MtFrame

\* for(i=0;i<128;i++) array[i] = pattern; then the cache flushes.
MtBusWrite(at, next, test, pattern) ==
    /\ pc = at
    /\ IF i < DataBusWords
       THEN /\ mem' = MemWrite(mem, i, pattern)
            /\ mtlog' = [mtlog EXCEPT !.written = Bump(@, test)]
            /\ i' = i + 1
            /\ pc' = pc
       ELSE /\ i' = 0
            /\ pc' = next
            /\ UNCHANGED << mem, mtlog >>
    /\ UNCHANGED << fault, seed_32, seed_16, error_cnt >>
    /\ MtFrame

\* for(i=0;i<128;i++) if(array[i] != pattern) error_cnt++;
MtBusCheck(at, next, test, pattern) ==
    /\ pc = at
    /\ IF i < DataBusWords
       THEN /\ IF MemRead(mem, i) # pattern
               THEN /\ error_cnt' = error_cnt + 1
                    /\ mtlog' = [mtlog EXCEPT !.checked = Bump(@, test),
                                              !.bad = Bump(@, test)]
               ELSE /\ error_cnt' = error_cnt
                    /\ mtlog' = [mtlog EXCEPT !.checked = Bump(@, test)]
            /\ i' = i + 1
            /\ pc' = pc
       ELSE /\ i' = 0
            /\ pc' = next
            /\ UNCHANGED << error_cnt, mtlog >>
    /\ UNCHANGED << mem, fault, seed_32, seed_16 >>
    /\ MtFrame

mt_bus1_write == MtBusWrite("mt_bus1_write", "mt_bus1_check", "bus1", ONEZERO)
mt_bus1_check == MtBusCheck("mt_bus1_check", "mt_bus2_write", "bus1", ONEZERO)
mt_bus2_write == MtBusWrite("mt_bus2_write", "mt_bus2_check", "bus2", ZEROONE)

mt_bus2_check == MtBusCheck("mt_bus2_check", "mt_data_write", "bus2", ZEROONE)

\* Mutant of mt_data_write: seed_32 is not set back to 0 for the verify pass.
mt_data_write_keepseed ==
    /\ pc = "mt_data_write"
    /\ IF i < TEST_DATA_SIZE \div 4
       THEN LET s == seed_to_data_32(IF i = 0 THEN Word(0) ELSE seed_32,
                                     TEST_DATA_RANDOM)
            IN  /\ seed_32' = s
                /\ mem' = MemWrite(mem, i, s)
                /\ mtlog' = [mtlog EXCEPT !.written = Bump(@, "data"),
                                          !.wval = Append(@, s)]
                /\ i' = i + 1
                /\ pc' = pc
       ELSE /\ seed_32' = seed_32
            /\ i' = 0
            /\ pc' = "mt_data_check"
            /\ UNCHANGED << mem, mtlog >>
    /\ UNCHANGED << fault, seed_16, error_cnt >>
    /\ MtFrame

\* seed_32 = 0 (the first iteration starts from it);
\* for(i=0;i<TEST_DATA_SIZE/4;i++) { seed_32 = next; array[i] = seed_32; }
\* then seed_32 = 0 and the cache flushes.
mt_data_write ==
    /\ pc = "mt_data_write"
    /\ IF i < TEST_DATA_SIZE \div 4
       THEN LET s == seed_to_data_32(IF i = 0 THEN Word(0) ELSE seed_32,
                                     TEST_DATA_RANDOM)
            IN  /\ seed_32' = s
                /\ mem' = MemWrite(mem, i, s)
                /\ mtlog' = [mtlog EXCEPT !.written = Bump(@, "data"),
                                          !.wval = Append(@, s)]
                /\ i' = i + 1
                /\ pc' = pc
       ELSE /\ seed_32' = Word(0)
            /\ i' = 0
            /\ pc' = "mt_data_check"
            /\ UNCHANGED << mem, mtlog >>
    /\ UNCHANGED << fault, seed_16, error_cnt >>
    /\ MtFrame

\* Mutant of mt_data_check: the pattern test ends at its first mismatch.
mt_data_check_stop ==
    /\ pc = "mt_data_check"
    /\ IF i < TEST_DATA_SIZE \div 4
       THEN LET s == seed_to_data_32(seed_32, TEST_DATA_RANDOM)
            IN  /\ seed_32' = s
                /\ IF MemRead(mem, i) # s
                   THEN /\ error_cnt' = error_cnt + 1
                        /\ mtlog' = [mtlog EXCEPT !.checked = Bump(@, "data"),
                                                  !.bad = Bump(@, "data"),
                                                  !.rval = Append(@, s)]
                        /\ i' = 0
                        /\ pc' = "mt_addr_write"
                   ELSE /\ error_cnt' = error_cnt
                        /\ mtlog' = [mtlog EXCEPT !.checked = Bump(@, "data"),
                                                  !.rval = Append(@, s)]
                        /\ i' = i + 1
                        /\ pc' = pc
                /\ seed_16' = seed_16
       ELSE /\ seed_16' = 0
            /\ i' = 0
            /\ pc' = "mt_addr_write"
            /\ UNCHANGED << seed_32, error_cnt, mtlog >>
    /\ UNCHANGED << mem, fault >>
    /\ MtFrame

\* for(i=0;i<TEST_DATA_SIZE/4;i++) { seed_32 = next;
\* if(array[i] != seed_32) error_cnt++; }  then seed_16 = 0.
mt_data_check ==
    /\ pc = "mt_data_check"
    /\ IF i < TEST_DATA_SIZE \div 4
       THEN LET s == seed_to_data_32(seed_32, TEST_DATA_RANDOM)
            IN  /\ seed_32' = s
                /\ IF MemRead(mem, i) # s
                   THEN /\ error_cnt' = error_cnt + 1
                        /\ mtlog' = [mtlog EXCEPT !.checked = Bump(@, "data"),
                                                  !.bad = Bump(@, "data"),
                                                  !.rval = Append(@, s)]
                   ELSE /\ error_cnt' = error_cnt
                        /\ mtlog' = [mtlog EXCEPT !.checked = Bump(@, "data"),
                                                  !.rval = Append(@, s)]
                /\ i' = i + 1
                /\ pc' = pc
                /\ seed_16' = seed_16
       ELSE /\ seed_16' = 0
            /\ i' = 0
            /\ pc' = "mt_addr_write"
            /\ UNCHANGED << seed_32, error_cnt, mtlog >>
    /\ UNCHANGED << mem, fault >>
    /\ MtFrame

\* for(i=0;i<TEST_ADDR_SIZE/4;i++) { seed_16 = next; array[seed_16] = i; }
\* then seed_16 = 0 and the cache flushes.
mt_addr_write ==
    /\ pc = "mt_addr_write"
    /\ IF i < TEST_ADDR_SIZE \div 4
       THEN LET s == seed_to_data_16(seed_16, TEST_ADDR_RANDOM)
            IN  /\ seed_16' = s
                /\ mem' = MemWrite(mem, s, Word(i))
                /\ mtlog' = [mtlog EXCEPT !.written = Bump(@, "addr"),
                                          !.woff = Append(@, s)]
                /\ i' = i + 1
                /\ pc' = pc
       ELSE /\ seed_16' = 0
            /\ i' = 0
            /\ pc' = "mt_addr_check"
            /\ UNCHANGED << mem, mtlog >>
    /\ UNCHANGED << fault, seed_32, error_cnt >>
    /\ MtFrame

\* Mutant of mt_addr_check: a mismatch is not counted.
mt_addr_check_nocount ==
    /\ pc = "mt_addr_check"
    /\ IF i < TEST_ADDR_SIZE \div 4
       THEN LET s == seed_to_data_16(seed_16, TEST_ADDR_RANDOM)
            IN  /\ seed_16' = s
                /\ IF MemRead(mem, s) # Word(i)
                   THEN /\ error_cnt' = error_cnt
                        /\ mtlog' = [mtlog EXCEPT !.checked = Bump(@, "addr"),
                                                  !.roff = Append(@, s)]
                   ELSE /\ error_cnt' = error_cnt
                        /\ mtlog' = [mtlog EXCEPT !.checked = Bump(@, "addr"),
                                                  !.roff = Append(@, s)]
                /\ i' = i + 1
                /\ pc' = pc
       ELSE /\ pc' = "mt_return"
            /\ UNCHANGED << i, seed_16, error_cnt, mtlog >>
    /\ UNCHANGED << mem, fault, seed_32 >>
    /\ MtFrame

\* for(i=0;i<TEST_ADDR_SIZE/4;i++) { seed_16 = next;
\* if(array[seed_16] != i) error_cnt++; }
mt_addr_check ==
    /\ pc = "mt_addr_check"
    /\ IF i < TEST_ADDR_SIZE \div 4
       THEN LET s == seed_to_data_16(seed_16, TEST_ADDR_RANDOM)
            IN  /\ seed_16' = s
                /\ IF MemRead(mem, s) # Word(i)
                   THEN /\ error_cnt' = error_cnt + 1
                        /\ mtlog' = [mtlog EXCEPT !.checked = Bump(@, "addr"),
                                                  !.bad = Bump(@, "addr"),
                                                  !.roff = Append(@, s)]
                   ELSE /\ error_cnt' = error_cnt
                        /\ mtlog' = [mtlog EXCEPT !.checked = Bump(@, "addr"),
                                                  !.roff = Append(@, s)]
                /\ i' = i + 1
                /\ pc' = pc
       ELSE /\ pc' = "mt_return"
            /\ UNCHANGED << i, seed_16, error_cnt, mtlog >>
    /\ UNCHANGED << mem, fault, seed_32 >>
    /\ MtFrame

\* memtest(): 0 when memtest_silent counted errors, else 1; then sdrinit's
\* if(!memtest()) return 0; return 1;
MemtestResult(e) == IF e # 0 THEN 0 ELSE 1

memtest ==
    /\ pc = "mt_return"
    /\ mem_ret' = MemtestResult(error_cnt)
    /\ sdrinit_ret' = IF mem_ret' = 0 THEN 0 ELSE 1
    /\ pc' = "done"
    /\ UNCHANGED << config, sh, alloc_vars, mt_vars, init_done, dfii_control, i, j, wl_locals,
                    bitslip_thr, rd_locals, level_ret, phy, log, env >>

----------------------------------------------------------------------------
\* The operator's commands, typed at the BIOS prompt after sdrinit.

ShFrame ==
    UNCHANGED << config, alloc_vars, mt_vars, pc, init_done, dfii_control, i, j,
                 wl_locals, bitslip_thr, rd_locals, rets, log, env >>

ShPrompt == pc = "done" /\ sh.n < MaxShellCommands

\* What every command leaves in sh: its name, arguments and message.
ShRan(cmd, args, out) ==
    [sh EXCEPT !.n = @ + 1, !.cmd = cmd, !.args = args, !.out = out]

\* Mutant of sdrrow: the end of the number is not looked at.
sdrrow_nocheck(_row) ==
    /\ ShPrompt
    /\ IF Len(_row) = 0
       THEN /\ sh' = [ShRan("sdrrow", << _row >>, "Precharged") EXCEPT
                         !.pi0_address = 0, !.pi0_baddress = 0,
                         !.regw = @ + 2, !.ncmd = @ + 1]
            /\ phy' = [phy EXCEPT !.row_open = FALSE, !.settled = TRUE]
       ELSE /\ sh' = [ShRan("sdrrow", << _row >>, "Activated row") EXCEPT
                         !.pi0_address = strtoul(_row).result,
                         !.pi0_baddress = 0,
                         !.regw = @ + 2, !.ncmd = @ + 1]
            /\ phy' = [phy EXCEPT !.row_open = TRUE, !.settled = TRUE]
    /\ ShFrame

\* sdrrow: precharge without an argument, else activate the row.
sdrrow(_row) ==
    /\ ShPrompt
    /\ IF Len(_row) = 0
       THEN /\ sh' = [ShRan("sdrrow", << _row >>, "Precharged") EXCEPT
                         !.pi0_address = 0, !.pi0_baddress = 0,
                         !.regw = @ + 2, !.ncmd = @ + 1]
            /\ phy' = [phy EXCEPT !.row_open = FALSE, !.settled = TRUE]
       ELSE IF Trailing(_row)
       THEN /\ sh' = ShRan("sdrrow", << _row >>, "incorrect row")
            /\ phy' = phy
       ELSE /\ sh' = [ShRan("sdrrow", << _row >>, "Activated row") EXCEPT
                         !.pi0_address = strtoul(_row).result,
                         !.pi0_baddress = 0,
                         !.regw = @ + 2, !.ncmd = @ + 1]
            /\ phy' = [phy EXCEPT !.row_open = TRUE, !.settled = TRUE]
    /\ ShFrame

\* sdrrdbuf(dq): the byte lanes it prints, of every phase.
sdrrdbuf(_dq) ==
    LET first_byte == IF _dq < 0 THEN 0 ELSE DFII_PIX_DATA_SIZE \div 2 - 1 - _dq
        step == IF _dq < 0 THEN 1 ELSE DFII_PIX_DATA_SIZE \div 2
    IN  { l \in Lanes : l >= first_byte /\ (l - first_byte) % step = 0 }

\* sdrrd: read at the address, print the lanes of DQ group dq (all without).
sdrrd(startaddr, dq_arg) ==
    /\ ShPrompt
    /\ IF Len(startaddr) = 0
       THEN sh' = ShRan("sdrrd", << startaddr, dq_arg >>, "sdrrd <address>")
                /\ phy' = phy
       ELSE IF Trailing(startaddr)
       THEN sh' = ShRan("sdrrd", << startaddr, dq_arg >>, "incorrect address")
                /\ phy' = phy
       ELSE IF Len(dq_arg) # 0 /\ Trailing(dq_arg)
       THEN sh' = ShRan("sdrrd", << startaddr, dq_arg >>, "incorrect DQ")
                /\ phy' = phy
       ELSE LET dqn == IF Len(dq_arg) = 0 THEN 0 - 1 ELSE strtoul(dq_arg).result
            IN  /\ sh' = [ShRan("sdrrd", << startaddr, dq_arg >>, "") EXCEPT
                             !.pird_address = strtoul(startaddr).result,
                             !.pird_baddress = 0,
                             !.regw = @ + 2, !.ncmd = @ + 1,
                             !.lanes = sdrrdbuf(dqn)]
                /\ phy' = [phy EXCEPT !.settled = TRUE]
    /\ ShFrame

\* sdrrderr: 16 addresses, 1 + count reads each; then the error bytes and
\* the DQ group of every lane are printed.
sdrrderr(count) ==
    /\ ShPrompt
    /\ IF Len(count) = 0
       THEN sh' = ShRan("sdrrderr", << count >>, "sdrrderr <count>")
                /\ phy' = phy
       ELSE IF Trailing(count)
       THEN sh' = ShRan("sdrrderr", << count >>, "incorrect count")
                /\ phy' = phy
       ELSE LET _count == strtoul(count).result
            IN  /\ sh' = [ShRan("sdrrderr", << count >>, "") EXCEPT
                             !.pird_address = 15 * 8,
                             !.pird_baddress = 0,
                             !.regw = @ + 2 * 16,
                             !.ncmd = @ + 16 * (1 + _count),
                             !.labels = [l \in 1 .. DFII_PIX_DATA_SIZE |->
                                            PinOfLane(l - 1)]]
                /\ phy' = [phy EXCEPT !.settled = TRUE]
    /\ ShFrame

\* sdrwr: fill the write buffers with 0x10*p + i, write at the address.
sdrwr(startaddr) ==
    /\ ShPrompt
    /\ IF Len(startaddr) = 0
       THEN sh' = ShRan("sdrwr", << startaddr >>, "sdrrd <address>")
                /\ phy' = phy
       ELSE IF Trailing(startaddr)
       THEN sh' = ShRan("sdrwr", << startaddr >>, "incorrect address")
                /\ phy' = phy
       ELSE /\ sh' = [ShRan("sdrwr", << startaddr >>, "") EXCEPT
                         !.wrdata = [b \in WrBuffer |-> 16 * b[1] + b[2]],
                         !.bufw = @ + DFII_NPHASES * DFII_PIX_DATA_SIZE,
                         !.piwr_address = strtoul(startaddr).result,
                         !.piwr_baddress = 0,
                         !.regw = @ + 2, !.ncmd = @ + 1]
            /\ phy' = [phy EXCEPT !.settled = FALSE]
    /\ ShFrame

----------------------------------------------------------------------------
\* liballoc: alloc_give, malloc, calloc, realloc, free.

AlFrame ==
    UNCHANGED << config, sh, mt_vars, pc, init_done, dfii_control, i, j,
                 wl_locals, bitslip_thr, rd_locals, rets, phy, log, env >>

AlPrompt == al.pc = "prompt" /\ al.calls < MaxAllocCalls

\* A call begins: op, the caller's size n, malloc's rounded size.
AlCall(op, n, oldp) ==
    [al EXCEPT !.pc = "walk", !.op = op, !.n = n, !.size = RoundUp(n),
               !.list = root, !.oldp = oldp, !.result = NULL,
               !.calls = @ + 1]

\* A call returns p to the prompt.
AlDone(p) == [al EXCEPT !.pc = "prompt", !.result = p]

\* alloc_give(area, size): an area the program has not given before.
alloc_give(a) ==
    /\ AlPrompt
    /\ a \notin owned.given
    /\ al' = [al EXCEPT !.op = "alloc_give", !.calls = @ + 1]
    /\ owned' = [owned EXCEPT !.given = @ \cup { a }]
    /\ IF a.size < SIZEOF_META + FILL
       THEN UNCHANGED << heap, root >>
       ELSE /\ heap' = [heap EXCEPT ![a.base] = IDLE,
                                    ![a.base + 1] = a.size - SIZEOF_META,
                                    ![a.base + 2] = root]
            /\ root' = a.base
    /\ AlFrame

\* malloc(size): size is rounded up, the walk starts at root.
malloc(size) ==
    /\ AlPrompt
    /\ al' = AlCall("malloc", size, NULL)
    /\ UNCHANGED << root, heap, owned >>
    /\ AlFrame

\* calloc(numb, size): the overflow check, then malloc(numb * size).
calloc(numb, size) ==
    /\ AlPrompt
    /\ LET objs == (numb * size) % SizeMod
           HALF_SIZE_T == 2 ^ (SizeBits \div 2)
       IN  IF /\ (numb >= HALF_SIZE_T \/ size >= HALF_SIZE_T)
              /\ size # 0
              /\ objs \div size # numb
           THEN al' = [AlDone(NULL) EXCEPT !.op = "calloc", !.n = objs,
                                           !.calls = @ + 1]
           ELSE al' = AlCall("calloc", objs, NULL)
    /\ UNCHANGED << root, heap, owned >>
    /\ AlFrame

\* realloc(oldp, size): malloc(size) first.
realloc(oldp, size) ==
    /\ AlPrompt
    /\ al' = AlCall("realloc", size, oldp)
    /\ UNCHANGED << root, heap, owned >>
    /\ AlFrame

\* The for loop of malloc at list: end of the list, a busy block, an idle
\* one, or a header that is neither (abort).
malloc_walk ==
    /\ al.pc = "walk"
    /\ IF al.list = NULL
       THEN al' = [al EXCEPT !.pc = "ret", !.result = NULL]
       ELSE IF ~InCells(al.list)
       THEN al' = [al EXCEPT !.pc = "aborted"]
       ELSE IF Magi(heap, al.list) = BUSY
       THEN al' = [al EXCEPT !.list = NextOf(heap, al.list)]
       ELSE IF Magi(heap, al.list) = IDLE
       THEN al' = [al EXCEPT !.pc = "join"]
       ELSE al' = [al EXCEPT !.pc = "aborted"]
    /\ UNCHANGED << root, heap, owned >>
    /\ AlFrame

\* while(list->next && list->next->magi == IDLE) { join }
malloc_join ==
    /\ al.pc = "join"
    /\ LET list == al.list
           next == NextOf(heap, list)
       IN  IF next # NULL /\ InCells(next) /\ Magi(heap, next) = IDLE
           THEN /\ heap' = [heap EXCEPT
                              ![list + 1] = (@ + Size(heap, next) + SIZEOF_META)
                                                % SizeMod,
                              ![next] = 0,
                              ![list + 2] = NextOf(heap, next)]
                /\ al' = al
           ELSE /\ al' = [al EXCEPT !.pc = "fit"]
                /\ heap' = heap
    /\ UNCHANGED << root, owned >>
    /\ AlFrame

\* if(list->size < size) continue; fork when the rest is worth a block;
\* list->magi = BUSY; return DATA(list).
malloc_fit ==
    /\ al.pc = "fit"
    /\ LET list == al.list
           size == al.size
           newl == DATA(list) + size
       IN  IF Size(heap, list) < size
           THEN /\ al' = [al EXCEPT !.pc = "walk", !.list = NextOf(heap, list)]
                /\ heap' = heap
           ELSE /\ al' = [al EXCEPT !.pc = "ret", !.result = DATA(list)]
                /\ IF Size(heap, list) > size + SIZEOF_META + FILL /\ InCells(newl)
                   THEN heap' = [heap EXCEPT
                                   ![newl] = IDLE,
                                   ![newl + 1] = Size(heap, list) - size
                                                    - SIZEOF_META,
                                   ![newl + 2] = NextOf(heap, list),
                                   ![list + 2] = newl,
                                   ![list + 1] = size,
                                   ![list] = BUSY]
                   ELSE heap' = [heap EXCEPT ![list] = BUSY]
    /\ UNCHANGED << root, owned >>
    /\ AlFrame

\* The caller has the block p of n cells.
Give(o, p, n) ==
    [o EXCEPT !.blocks = @ \cup { [ptr |-> p, n |-> n] },
              !.returned = @ \cup { p }]
Take(o, p) == [o EXCEPT !.blocks = { b \in @ : b.ptr # p }]

\* malloc has returned: to the caller, or into calloc (memset) or realloc
\* (memcpy, free(oldp)).
alloc_return ==
    /\ al.pc = "ret"
    /\ LET p == al.result
       IN  IF p = NULL
           THEN /\ al' = AlDone(NULL)
                /\ UNCHANGED << heap, owned >>
           ELSE IF al.op = "malloc" \/ (al.op = "realloc" /\ al.oldp = NULL)
           THEN /\ al' = AlDone(p)
                /\ owned' = Give(owned, p, al.n)
                /\ heap' = heap
           ELSE IF al.op = "calloc"
           THEN /\ al' = AlDone(p)
                /\ owned' = Give(owned, p, al.n)
                /\ heap' = Memset0(heap, p, al.n)
           ELSE LET olds == IF al.n > Size(heap, LIST(al.oldp))
                            THEN Size(heap, LIST(al.oldp)) ELSE al.n
                    copied == Memcpy(heap, p, al.oldp, olds)
                IN  IF Magi(copied, LIST(al.oldp)) # BUSY
                    THEN /\ al' = [al EXCEPT !.pc = "aborted"]
                         /\ heap' = copied
                         /\ owned' = Give(owned, p, al.n)
                    ELSE /\ al' = AlDone(p)
                         /\ heap' = [copied EXCEPT ![LIST(al.oldp)] = IDLE]
                         /\ owned' = Give(Take(owned, al.oldp), p, al.n)
    /\ UNCHANGED root
    /\ AlFrame

\* free without the check of the header: every block is marked IDLE.
free_nocheck(objp) ==
    /\ AlPrompt
    /\ IF objp = NULL
       THEN /\ al' = [al EXCEPT !.op = "free", !.objp = objp, !.calls = @ + 1]
            /\ UNCHANGED << heap, owned >>
       ELSE /\ al' = [al EXCEPT !.op = "free", !.objp = objp, !.calls = @ + 1]
            /\ heap' = [heap EXCEPT ![LIST(objp)] = IDLE]
            /\ owned' = Take(owned, objp)
    /\ UNCHANGED root
    /\ AlFrame

\* free(objp): nothing for NULL, abort unless the header is BUSY.
free(objp) ==
    /\ AlPrompt
    /\ IF objp = NULL
       THEN /\ al' = [al EXCEPT !.op = "free", !.objp = objp, !.calls = @ + 1]
            /\ UNCHANGED << heap, owned >>
       ELSE IF Magi(heap, LIST(objp)) # BUSY
       THEN /\ al' = [al EXCEPT !.op = "free", !.objp = objp, !.calls = @ + 1,
                                !.pc = "aborted"]
            /\ UNCHANGED << heap, owned >>
       ELSE /\ al' = [al EXCEPT !.op = "free", !.objp = objp, !.calls = @ + 1]
            /\ heap' = [heap EXCEPT ![LIST(objp)] = IDLE]
            /\ owned' = Take(owned, objp)
    /\ UNCHANGED root
    /\ AlFrame

\* The pointers the program holds.
HeldPointers == { b.ptr : b \in owned.blocks }

AllocInit == Init /\ ~CSR_DDRPHY_BASE

AllocNext ==
    \/ \E a \in Areas : alloc_give(a)
    \/ \E size \in Sizes : malloc(size)
    \/ \E args \in CallocArgs : calloc(args[1], args[2])
    \/ \E oldp \in HeldPointers \cup { NULL } : \E size \in Sizes :
           realloc(oldp, size)
    \/ \E objp \in owned.returned \cup { NULL } : free(objp)
    \/ malloc_walk
    \/ malloc_join
    \/ malloc_fit
    \/ alloc_return

AllocSpec == AllocInit /\ [][AllocNext]_vars

----------------------------------------------------------------------------

Next ==
    \/ init_sequence
    \/ sdrlevel_entry
    \/ sdrwlon
    \/ wl_cdelay100
    \/ wl_loop
    \/ wl_strobe0
    \/ wl_cdelay0
    \/ wl_read0
    \/ wl_first
    \/ wl_pre_test
    \/ wl_pre_inc
    \/ wl_pre_strobe
    \/ wl_pre_cdelay
    \/ wl_pre_read
    \/ wl_main_test
    \/ wl_main_inc
    \/ wl_main_strobe
    \/ wl_main_cdelay
    \/ wl_main_read
    \/ sdrwloff
    \/ wl_report
    \/ sdrlevel_wl
    \/ read_bitslip
    \/ bitslip_loop
    \/ rd_activate
    \/ rd_cdelay_act
    \/ rd_write
    \/ rd_loop
    \/ rd_min_cmd
    \/ rd_min_cdelay
    \/ rd_min_test
    \/ rd_min_inc
    \/ rd_step
    \/ rd_max_cmd
    \/ rd_max_cdelay
    \/ rd_max_test
    \/ rd_max_inc
    \/ rd_middle
    \/ rd_set
    \/ rd_precharge
    \/ rd_cdelay_pre
    \/ sdrlevel_ret
    \/ sdrinit_level
    \/ sdrinit_hw
    \/ memtest_silent
    \/ mt_bus1_write
    \/ mt_bus1_check
    \/ mt_bus2_write
    \/ mt_bus2_check
    \/ mt_data_write
    \/ mt_data_check
    \/ mt_addr_write
    \/ mt_addr_check
    \/ memtest
    \/ \E _row \in ArgStrings : sdrrow(_row)
    \/ \E startaddr, dq_arg \in ArgStrings : sdrrd(startaddr, dq_arg)
    \/ \E count \in ArgStrings : sdrrderr(count)
    \/ \E startaddr \in ArgStrings : sdrwr(startaddr)

Spec == Init /\ [][Next]_vars

\* The program is one sequential thread: it takes its next step as long as
\* there is one.
FairSpec == Spec /\ WF_vars(Next)

----------------------------------------------------------------------------
\* Positions and reference values used by the properties.

RdLoopPcs == { "rd_loop", "rd_min_cmd", "rd_min_cdelay", "rd_min_test",
               "rd_min_inc", "rd_step", "rd_max_cmd", "rd_max_cdelay",
               "rd_max_test", "rd_max_inc", "rd_middle", "rd_set" }

\* read_delays has returned.
RdReturned == pc = "sdrlevel_ret" \/ level_ret = 1

\* read_bitslip has returned.
BitslipReturned ==
    \/ pc \in { "read_delays", "rd_cdelay_act", "rd_write", "rd_precharge",
                "rd_cdelay_pre" }
    \/ pc \in RdLoopPcs
    \/ RdReturned

\* read_delays is through with pin p (loop index NPins-1-p).
RdPinDone(p) ==
    \/ pc \in RdLoopPcs /\ i > NPins - 1 - p
    \/ pc \in { "rd_precharge", "rd_cdelay_pre" }
    \/ RdReturned

AllZero(f) == \A p \in Pins : f[p] = 0

\* Taps a scan can sample: 0 .. ERR_DDRPHY_DELAY-1.
ScanTaps == 0 .. (ERR_DDRPHY_DELAY - 1)

\* The read-back of window w matches on some tap of the scan.
HasMatch(w) == \E t \in ScanTaps : InWindow(w, t)

\* Tap t is an edge of behaviour b: non-zero feedback after a zero one.
IsEdge(b, t) ==
    /\ Feedback(b, t) # 0
    /\ \E z \in 0 .. (t - 1) : Feedback(b, z) = 0

EdgeFound(b) == \E t \in ScanTaps : IsEdge(b, t)

RefDelay(b) ==
    CHOOSE t \in ScanTaps :
        IsEdge(b, t) /\ \A u \in 0 .. (t - 1) : ~IsEdge(b, u)

\* floor(min delay over the high_skew pins / 2)
RefThreshold ==
    LET S == { delay[p] : p \in { q \in Pins : high_skew[q] # 0 } }
    IN  (CHOOSE m \in S : \A x \in S : m <= x) \div 2

----------------------------------------------------------------------------
\* C1: if some pin's read-delay scan reaches the ceiling without a matching
\* tap, sdrlevel returns false; it returns true only when every pin found a
\* matching tap.  (The code returns 1 whatever read_delays found.)
C1_ReadFailureReported ==
    level_ret = 1 => \A p \in Pins : HasMatch(env.rd[p])

\* C2: when write_level reports failure, sdrlevel returns 0 at once: no
\* bitslip pulse, no read-delay reset or increment and no activate, write,
\* read or precharge of read-delay calibration is ever issued.
C2_WriteLevelFailureAborts ==
    wl_ret = 0 =>
        /\ pc \in { "sdrlevel_wl", "sdrinit_level", "done" }
        /\ pc # "sdrlevel_wl" => level_ret = 0
        /\ AllZero(log.bitslip)
        /\ AllZero(log.rrst)
        /\ AllZero(phy.rdly)
        /\ AllZero(log.rd)
        /\ log.act = 0 /\ log.wr = 0 /\ log.pre = 0
        /\ log.mrs = 2
        /\ log.sel = NPins

C2_Witness ==
    /\ pc = "done"
    /\ wl_ret = 0
    /\ level_ret = 0
    /\ \E p \in Pins : high_skew[p] # 0 /\ delay[p] < ERR_DDRPHY_DELAY

\* C3: once read_delays is through with a pin, the increments applied to
\* its read delay since the last reset are floor((min + max) / 2) of the
\* window it reported, and lie between min and max.
C3_TapIsWindowMiddle ==
    \A p \in Pins :
        RdPinDone(p) =>
            /\ phy.rdly[p] = (report[p][1] + report[p][2]) \div 2
            /\ report[p][1] <= phy.rdly[p]
            /\ phy.rdly[p] <= report[p][2]

C3_Witness ==
    /\ pc = "done"
    /\ level_ret = 1
    /\ \E p \in Pins : report[p] = << 3, 10 >> /\ phy.rdly[p] = 6
    /\ \E p \in Pins : report[p][1] >= ERR_DDRPHY_DELAY

\* A window a..b with a tap below it and b+1 below the ceiling.
ExactWindow(w) == 1 <= w.a /\ w.a <= w.b /\ w.b + 1 < ERR_DDRPHY_DELAY

C4_Outcome(p) ==
    /\ report[p] = << env.rd[p].a, env.rd[p].b + 1 >>
    /\ env.rd[p].a <= phy.rdly[p]
    /\ phy.rdly[p] <= env.rd[p].b
    /\ env.rd[p] = Window(3, 9) => phy.rdly[p] = 6

\* C4 as claimed: for a pin matching exactly on taps a..b, read_delays
\* records min = a, ends the upper scan at b+1 and leaves the tap in
\* [a, b]; 6 for the window [3, 9].
C4_WindowFound ==
    \A p \in Pins :
        (RdPinDone(p) /\ ExactWindow(env.rd[p])) => C4_Outcome(p)

\* C4 amended: the same for a window at least as wide as the step taken
\* past min (1 tap, 16 on the KUS PHY): a + step <= b + 1.
C4_WideWindowFound ==
    \A p \in Pins :
        ( /\ RdPinDone(p)
          /\ ExactWindow(env.rd[p])
          /\ env.rd[p].a + (IF CONFIG_KUSDDRPHY THEN 16 ELSE 1)
                 <= env.rd[p].b + 1 )
        => C4_Outcome(p)

C4_Witness ==
    /\ RdReturned
    /\ \E p \in Pins :
           /\ env.rd[p] = Window(3, 9)
           /\ report[p] = << 3, 10 >>
           /\ phy.rdly[p] = 6
    /\ \E p \in Pins : env.rd[p] = Window(5, 5) /\ phy.rdly[p] = 5

\* C5: write_level returns 0 exactly when some pin's edge is not found
\* within the ceiling, and 1 otherwise.
C5_OkIffEveryEdgeFound ==
    wl_ret # NotYet =>
        /\ wl_ret = 0 <=> \E p \in Pins : ~EdgeFound(env.wl[p])
        /\ wl_ret = 1 <=> \A p \in Pins : EdgeFound(env.wl[p])
        /\ \A p \in Pins :
               EdgeFound(env.wl[p]) <=> delay[p] < ERR_DDRPHY_DELAY

C5_Witness ==
    /\ wl_ret = 0
    /\ \E p \in Pins :
           /\ EdgeFound(env.wl[p])
           /\ delay[p] = ERR_DDRPHY_DELAY - 1
    /\ \E p \in Pins : ~EdgeFound(env.wl[p]) /\ high_skew[p] # 0

\* C6: write_level's result is the reference one: high_skew iff the first
\* sample is non-zero, delay the number of increments to the first non-zero
\* feedback after a zero one; pins with a zero first sample and an edge
\* after k increments (1 <= k < ceiling) get delay k, no high_skew, ok.
C6_LevelMatchesReference ==
    wl_ret # NotYet =>
        /\ \A p \in Pins :
               /\ high_skew[p] # 0 <=> Feedback(env.wl[p], 0) # 0
               /\ EdgeFound(env.wl[p]) => delay[p] = RefDelay(env.wl[p])
               /\ ( /\ env.wl[p].c = 0
                    /\ env.wl[p].e \in 1 .. (ERR_DDRPHY_DELAY - 1) )
                  => (delay[p] = env.wl[p].e /\ high_skew[p] = 0)
        /\ ( \A p \in Pins : /\ env.wl[p].c = 0
                             /\ env.wl[p].e \in 1 .. (ERR_DDRPHY_DELAY - 1) )
           => wl_ret = 1

C6_Witness ==
    /\ wl_ret = 1
    /\ \E p \in Pins : env.wl[p] = WlBeh(0, 5) /\ delay[p] = 5
    /\ \E p \in Pins :
           /\ env.wl[p] = WlBeh(2, 5)
           /\ delay[p] = 5
           /\ high_skew[p] = 1

\* C7: with a high_skew pin in the table, read_bitslip slips exactly the
\* pins whose delay is above floor(min delay of the high_skew pins / 2):
\* 3 pulses each (1 on the KUS PHY), none for the others.
C7_SlipIffAboveThreshold ==
    (BitslipReturned /\ \E p \in Pins : high_skew[p] # 0) =>
        \A p \in Pins :
            log.bitslip[p] = IF delay[p] > RefThreshold
                             THEN (IF CONFIG_KUSDDRPHY THEN 1 ELSE 3)
                             ELSE 0

C7_Witness ==
    /\ BitslipReturned
    /\ \E p \in Pins : high_skew[p] # 0 /\ log.bitslip[p] = 3
    /\ \E p \in Pins : delay[p] = RefThreshold /\ log.bitslip[p] = 0

\* C8: with no high_skew pin (always so without write leveling),
\* read_bitslip pulses and selects nothing, and read_delays is entered next.
C8_NoSkewNoSlip ==
    /\ []( (BitslipReturned /\ AllZero(high_skew)) =>
              /\ AllZero(log.bitslip)
              /\ pc = "read_delays" =>
                     log.sel = IF CONFIG_DDRPHY_WLEVEL THEN NPins ELSE 0 )
    /\ [][ (pc = "read_bitslip" /\ AllZero(high_skew)) =>
              (pc' = "read_delays" /\ phy' = phy) ]_vars

C8_Witness ==
    /\ pc = "rd_write"
    /\ AllZero(high_skew)
    /\ \E p \in Pins : delay[p] = 5
    /\ AllZero(log.bitslip)

\* C9: leveling mode brackets the scan: strobes and write-delay resets and
\* increments happen only while it is on, and it is off (wlevel_en = 0,
\* MR1 without the leveling bit) whenever write_level has returned.
C9_LevelingBracketsScan ==
    /\ [][ ( \/ log'.strobe # log.strobe
             \/ log'.wrst # log.wrst
             \/ phy'.wdly_dq # phy.wdly_dq
             \/ phy'.wdly_dqs # phy.wdly_dqs )
           => ( /\ phy.wlevel_en = 1 /\ phy.mr1_wl
                /\ phy'.wlevel_en = 1 /\ phy'.mr1_wl
                /\ wl_ret = NotYet ) ]_vars
    /\ [](wl_ret # NotYet => (phy.wlevel_en = 0 /\ ~phy.mr1_wl))

C9_Witness ==
    /\ wl_ret = 0
    /\ phy.wlevel_en = 0
    /\ ~phy.mr1_wl
    /\ \E p \in Pins : log.strobe[p] = ERR_DDRPHY_DELAY
    /\ \E p \in Pins : phy.wdly_dqs[p] = 5

\* C10: sdrinit runs the init sequence, then calibration, then switches to
\* hardware control, then the memory test; after a failed calibration the
\* switch and the memory test never happen.
C10_SdrinitOrder ==
    /\ pc # "sdrinit" => init_done
    /\ dfii_control = DFII_CONTROL_SEL =>
           (init_done /\ (CSR_DDRPHY_BASE => level_ret = 1))
    /\ mem_ret # NotYet => dfii_control = DFII_CONTROL_SEL
    /\ level_ret = 0 =>
           (dfii_control # DFII_CONTROL_SEL /\ mem_ret = NotYet)
    /\ (pc = "done" /\ level_ret = 0) => sdrinit_ret = 0
    /\ (pc = "done" /\ level_ret # 0) => mem_ret # NotYet

C10_Witness ==
    /\ pc = "done"
    /\ level_ret = 0
    /\ sdrinit_ret = 0
    /\ dfii_control # DFII_CONTROL_SEL

----------------------------------------------------------------------------
\* Positions of memtest_silent and of write_level.

\* memtest_silent has returned.
MtReturned == pc = "mt_return" \/ mem_ret # NotYet

\* write_level has returned.
WlReturned == wl_ret # NotYet

\* Every pin has an edge within the ceiling and a tap at which the pattern
\* reads back.
CalibrationSucceeded ==
    /\ CONFIG_DDRPHY_WLEVEL => (WlReturned /\ \A p \in Pins : EdgeFound(env.wl[p]))
    /\ RdReturned
    /\ \A p \in Pins : HasMatch(env.rd[p])

\* sdrinit's result follows what sdrlevel and memtest returned.
SdrinitFollowsReturns ==
    pc = "done" =>
        /\ sdrinit_ret = 1 <=>
               /\ CSR_DDRPHY_BASE => level_ret = 1
               /\ mem_ret = 1
        /\ MtReturned => (mem_ret = 0 <=> error_cnt # 0)
        /\ (MtReturned /\ error_cnt # 0) => sdrinit_ret = 0

\* C11: sdrinit returns 1 exactly when calibration succeeded (every pin
\* leveled and given a working read tap, where there is a PHY) and
\* memtest_silent counted no mismatch; a non-zero count makes memtest and
\* sdrinit return 0.
C11_SuccessIffCalibratedAndClean ==
    pc = "done" =>
        /\ sdrinit_ret = 1 <=>
               /\ CSR_DDRPHY_BASE => CalibrationSucceeded
               /\ MtReturned
               /\ error_cnt = 0
        /\ (MtReturned /\ error_cnt # 0) => (mem_ret = 0 /\ sdrinit_ret = 0)

\* C12: in read_delays the software counter, the recorded window bounds and
\* the increments applied to each pin's read-delay line since its reset are
\* all within 0 .. ERR_DDRPHY_DELAY.
C12_TapCountsBounded ==
    /\ 0 <= rd_delay /\ rd_delay <= ERR_DDRPHY_DELAY
    /\ 0 <= delay_min /\ delay_min <= ERR_DDRPHY_DELAY
    /\ 0 <= delay_max /\ delay_max <= ERR_DDRPHY_DELAY
    /\ \A p \in Pins :
           /\ 0 <= phy.rdly[p] /\ phy.rdly[p] <= ERR_DDRPHY_DELAY
           /\ report[p][1] <= ERR_DDRPHY_DELAY
           /\ report[p][2] <= ERR_DDRPHY_DELAY

\* C13: sdrinit, and sdrlevel within it, terminates whatever the board
\* shows; write_level strobes a pin at most ERR_DDRPHY_DELAY times and
\* read_delays issues at most ERR_DDRPHY_DELAY + 1 reads for a pin.
C13_BoundedTermination ==
    /\ <>(pc = "done")
    /\ [](\A p \in Pins :
              /\ log.strobe[p] <= ERR_DDRPHY_DELAY
              /\ log.rd[p] <= ERR_DDRPHY_DELAY + 1)

C13_Witness ==
    /\ pc = "done"
    /\ \E p \in Pins : log.strobe[p] = ERR_DDRPHY_DELAY
    /\ \E p \in Pins : log.rd[p] = ERR_DDRPHY_DELAY + 1

\* C14: write_level never aborts early: when leveling mode is switched off
\* every pin has had its DQ and DQS delays reset (once, while selected) and
\* has been strobed, whatever earlier pins did at the ceiling.
C14_NoEarlyAbort ==
    [][(phy.wlevel_en = 1 /\ phy'.wlevel_en = 0) =>
           \A p \in Pins : log.wrst[p] = 1 /\ log.strobe[p] >= 1]_vars

C14_Witness ==
    /\ WlReturned
    /\ phy.wlevel_en = 0
    /\ delay[0] = ERR_DDRPHY_DELAY
    /\ \A p \in Pins : log.wrst[p] = 1 /\ log.strobe[p] >= 1
    /\ \E p \in Pins : p > 0 /\ delay[p] < ERR_DDRPHY_DELAY

\* C15: in write_level 0 <= delay[i] <= ERR_DDRPHY_DELAY always, and a pin
\* whose edge is never found ends with delay[i] = ERR_DDRPHY_DELAY exactly
\* and makes write_level return 0.
C15_DelayWithinCeiling ==
    /\ \A p \in Pins : 0 <= delay[p] /\ delay[p] <= ERR_DDRPHY_DELAY
    /\ WlReturned =>
           \A p \in Pins :
               ~EdgeFound(env.wl[p]) =>
                   delay[p] = ERR_DDRPHY_DELAY /\ wl_ret = 0

C15_Witness ==
    /\ WlReturned
    /\ wl_ret = 0
    /\ \E p \in Pins :
           /\ env.wl[p] = StuckLow
           /\ high_skew[p] = 0
           /\ delay[p] = ERR_DDRPHY_DELAY
    /\ \E p \in Pins :
           /\ env.wl[p] = WlBeh(0, 0)
           /\ high_skew[p] = 1
           /\ delay[p] = ERR_DDRPHY_DELAY

\* read_delays is past its loop over the pins.
RdScanOver == pc \in { "rd_precharge", "rd_cdelay_pre" } \/ RdReturned

\* C16: read_delays never stops at a failing pin: when its loop is over,
\* every pin has been reset for its scan, read in the lower and in the upper
\* scan, reset again and set to the middle of what was recorded for it.
C16_EveryPinScanned ==
    RdScanOver =>
        \A p \in Pins :
            /\ log.rrst[p] = 2
            /\ log.rd[p] >= 2
            /\ report[p][1] < report[p][2]
            /\ phy.rdly[p] = Middle(report[p][1], report[p][2])

C16_Witness ==
    /\ RdScanOver
    /\ report[NPins - 1][1] = ERR_DDRPHY_DELAY
    /\ \E p \in Pins :
           /\ p < NPins - 1
           /\ report[p] = << 3, 10 >>
           /\ phy.rdly[p] = 6

\* C17: read_delays issues one activate, one pattern write, then only reads,
\* then one precharge: reads only with the row open after the write and
\* before the precharge, no activate or write once reads began, the
\* precharge after every pin's scans.
C17_CommandOrder ==
    /\ [](/\ log.act <= 1 /\ log.wr <= 1 /\ log.pre <= 1
          /\ log.wr = 1 => log.act = 1
          /\ log.pre = 1 => log.wr = 1
          /\ RdReturned => (log.act = 1 /\ log.wr = 1 /\ log.pre = 1))
    /\ [][/\ log'.rd # log.rd =>
                 /\ log.act = 1 /\ log.wr = 1 /\ log.pre = 0
                 /\ phy.row_open /\ phy.pattern
                 /\ UNCHANGED << log.act, log.wr, log.pre >>
          /\ log'.act # log.act =>
                 log.wr = 0 /\ log.pre = 0 /\ AllZero(log.rd)
          /\ log'.wr # log.wr =>
                 log.act = 1 /\ log.pre = 0 /\ AllZero(log.rd)
          /\ log'.pre # log.pre =>
                 \A p \in Pins : log.rd[p] >= 2]_vars

C17_Witness ==
    /\ RdReturned
    /\ log.act = 1 /\ log.wr = 1 /\ log.pre = 1
    /\ ~phy.row_open
    /\ \A p \in Pins : log.rd[p] > 2

CommandIssued ==
    \/ log'.mrs # log.mrs
    \/ log'.act # log.act
    \/ log'.wr # log.wr
    \/ log'.pre # log.pre
    \/ log'.rd # log.rd
    \/ log'.strobe # log.strobe

\* Where the result of a strobe or of a read is sampled.
SamplePcs == { "wl_read0", "wl_pre_read", "wl_main_read", "rd_min_test",
               "rd_max_test" }

\* C19: in sdrlevel a command or strobe is issued only when the previous
\* one was followed by a settle delay, and a result is sampled only after
\* the settle delay.
C19_SettleBetweenCommands ==
    [][/\ CommandIssued => phy.settled
       /\ pc \in SamplePcs => phy.settled]_vars

Full(t) ==
    IF t \in { "bus1", "bus2" } THEN DataBusWords
    ELSE IF t = "data" THEN TEST_DATA_SIZE \div 4
    ELSE TEST_ADDR_SIZE \div 4

\* The sub-tests in the order of the code, and what precedes each.
Before(t) ==
    IF t = "bus2" THEN "bus1" ELSE IF t = "data" THEN "bus2" ELSE "data"

\* The mismatches a RAM with dropped writes must give: a faulty word keeps
\* what it held, which is neither data-bus pattern and no value of the
\* pattern test; in the address test word s is written s - 1.
BusWords == 0 .. (DataBusWords - 1)
DataWords == 0 .. ((TEST_DATA_SIZE \div 4) - 1)
AddrWords == 1 .. (TEST_ADDR_SIZE \div 4)
RefMismatches ==
    [ bus1 |-> Cardinality(fault \cap BusWords),
      bus2 |-> Cardinality(fault \cap BusWords),
      data |-> Cardinality(fault \cap DataWords),
      addr |-> Cardinality({ k \in fault \cap AddrWords :
                                 mem[k] # Word(k - 1) }) ]

\* C20: memtest_silent never stops at a mismatch: each sub-test writes and
\* verifies all its words, in the order data bus (both patterns), pattern
\* test, address test, and the value returned is the sum of the mismatches
\* of the four verify loops.
C20_AllSubTestsRun ==
    /\ \A t \in Tests :
           /\ mtlog.checked[t] > 0 => mtlog.written[t] = Full(t)
           /\ (t # "bus1" /\ mtlog.written[t] > 0) =>
                  mtlog.checked[Before(t)] = Full(Before(t))
    /\ MtReturned =>
           /\ \A t \in Tests :
                  mtlog.written[t] = Full(t) /\ mtlog.checked[t] = Full(t)
           /\ mtlog.bad = [t \in Tests |-> RefMismatches[t]]
           /\ error_cnt = mtlog.bad["bus1"] + mtlog.bad["bus2"]
                            + mtlog.bad["data"] + mtlog.bad["addr"]

C20_Witness ==
    /\ MtReturned
    /\ fault = RamWords
    /\ \A t \in Tests : mtlog.checked[t] = Full(t) /\ mtlog.bad[t] > 0
    /\ error_cnt > 3

\* The elements of a sequence are pairwise different.
Distinct(q) == \A a, b \in 1 .. Len(q) : a # b => q[a] # q[b]

NoBad == \A t \in Tests : mtlog.bad[t] = 0

\* C21: on a fault-free RAM memtest_silent returns 0: each verify pass
\* regenerates the values and the offsets of its write pass, and the address
\* test writes no offset twice.
C21_FaultFreePasses ==
    MtReturned =>
        /\ mtlog.rval = mtlog.wval
        /\ Len(mtlog.wval) = TEST_DATA_SIZE \div 4
        /\ mtlog.roff = mtlog.woff
        /\ Len(mtlog.woff) = TEST_ADDR_SIZE \div 4
        /\ Distinct(mtlog.woff)
        /\ fault = {} => (error_cnt = 0 /\ NoBad)
        /\ (fault = {} /\ pc = "done") => (mem_ret = 1 /\ sdrinit_ret = 1)

C21_Witness ==
    /\ pc = "done"
    /\ fault = {}
    /\ mem_ret = 1
    /\ error_cnt = 0
    /\ \A t \in Tests : mtlog.checked[t] = Full(t)
    /\ mem[0] = mtlog.wval[1]
    /\ mem[1] = Word(0)

\* s' = (25173*s + 13849) mod 2^16
Lcg16(x) == (25173 * x + 13849) % 65536

\* The offsets follow the recurrence f from seed 0.
FollowsLcg16(q) ==
    \A k \in 1 .. Len(q) : q[k] = Lcg16(IF k = 1 THEN 0 ELSE q[k - 1])

\* C22: the address test takes its word offsets from the 16-bit
\* linear-congruential recurrence seeded at 0, writes the loop index at each
\* offset and verifies the same offsets.
C22_OffsetsFromLcg16 ==
    /\ FollowsLcg16(mtlog.woff)
    /\ FollowsLcg16(mtlog.roff)
    /\ MtReturned => mtlog.roff = mtlog.woff

\* The RAM drops the writes to exactly one word, one the address test visits.
OneDroppedOffset(k) ==
    /\ fault = { k }
    /\ \E n \in 1 .. Len(mtlog.woff) : mtlog.woff[n] = k

One(b) == IF b THEN 1 ELSE 0

\* C23 as claimed: with the writes to one offset of the address test
\* dropped, memtest_silent returns a non-zero count made of one mismatch of
\* the address test and none of the data-bus and pattern tests.
C23_OnlyAddressTestFails ==
    \A k \in RamWords :
        (MtReturned /\ OneDroppedOffset(k)) =>
            /\ error_cnt # 0
            /\ mtlog.bad["addr"] = 1
            /\ mtlog.bad["bus1"] = 0
            /\ mtlog.bad["bus2"] = 0
            /\ mtlog.bad["data"] = 0

\* C23 amended: the count is non-zero; every sub-test that writes the word
\* counts one mismatch for it unless the stale word already holds the value
\* expected there: the address test at most one, the pattern test one (it
\* covers every offset of the address test), each data-bus pattern one when
\* the offset is below the data-bus length.
C23_EveryTestOfTheWordFails ==
    \A k \in RamWords :
        (MtReturned /\ OneDroppedOffset(k)) =>
            /\ error_cnt # 0
            /\ mtlog.bad["addr"] = One(mem[k] # Word(k - 1))
            /\ mtlog.bad["data"] = One(mem[k] # mtlog.wval[k + 1])
            /\ mtlog.bad["data"] = 1
            /\ mtlog.bad["bus1"] = One(k \in BusWords /\ mem[k] # ONEZERO)
            /\ mtlog.bad["bus2"] = One(k \in BusWords /\ mem[k] # ZEROONE)
            /\ error_cnt = mtlog.bad["addr"] + mtlog.bad["data"]
                             + mtlog.bad["bus1"] + mtlog.bad["bus2"]

C23_Witness ==
    /\ MtReturned
    /\ OneDroppedOffset(TEST_ADDR_SIZE \div 4)
    /\ mtlog.bad["addr"] = 1
    /\ mtlog.bad["data"] = 1
    /\ mtlog.bad["bus1"] = 0
    /\ error_cnt = 2

InAddrWindow(off) == 0 <= off /\ off < TEST_ADDR_SIZE \div 4

\* C26: every word offset the address test writes or verifies lies in the
\* window of TEST_ADDR_SIZE bytes at the base: 0 <= offset < TEST_ADDR_SIZE/4.
C26_OffsetsInWindow ==
    /\ \A n \in 1 .. Len(mtlog.woff) : InAddrWindow(mtlog.woff[n])
    /\ \A n \in 1 .. Len(mtlog.roff) : InAddrWindow(mtlog.roff[n])

WlLoopPcs == { "wl_strobe0", "wl_cdelay0", "wl_read0", "wl_first",
               "wl_pre_test", "wl_pre_inc", "wl_pre_strobe", "wl_pre_cdelay",
               "wl_pre_read", "wl_main_test", "wl_main_inc", "wl_main_strobe",
               "wl_main_cdelay", "wl_main_read" }

\* The pin the step being taken works on.
PinAtWork ==
    IF pc \in WlLoopPcs \cup { "wl_loop", "bitslip_loop" } THEN i
    ELSE NPins - 1 - i

\* Pin p's taps, or the pulses and resets it received, change in this step.
Touched(p) ==
    \/ phy'.wdly_dq[p] # phy.wdly_dq[p]
    \/ phy'.wdly_dqs[p] # phy.wdly_dqs[p]
    \/ phy'.rdly[p] # phy.rdly[p]
    \/ log'.wrst[p] # log.wrst[p]
    \/ log'.rrst[p] # log.rrst[p]
    \/ log'.bitslip[p] # log.bitslip[p]

Least(S) == CHOOSE m \in S : \A x \in S : m <= x
Larger(a, b) == IF a >= b THEN a ELSE b

\* What read_delays records for a pin with read-back window w, from w alone.
\* After a lower scan that found nothing the line is one tap behind the
\* counter.
RefMin(w) ==
    IF HasMatch(w) THEN Least({ t \in ScanTaps : InWindow(w, t) })
    ELSE ERR_DDRPHY_DELAY
RefLag(w) == IF HasMatch(w) THEN 0 ELSE 1
RefMax(w) ==
    LET start == RefMin(w) + WorkingZoneStep
        last == Larger(start, ERR_DDRPHY_DELAY - 1)
        S == { t \in start .. last : ~InWindow(w, t - RefLag(w)) }
    IN  IF S # {} THEN Least(S) ELSE last + 1

\* C25: pins are calibrated independently: a reset, increment or bitslip
\* pulse reaches a pin only while dly_sel selects that pin alone, the one
\* being calibrated, and what read_delays records and sets for a pin follows
\* from that pin's read-back behaviour alone.
C25_PinsIndependent ==
    /\ [][\A p \in Pins :
              Touched(p) => (phy'.dly_sel = Shl1(p) /\ p = PinAtWork)]_vars
    /\ [](\A p \in Pins :
              (RdPinDone(p) /\ pc \in { "rd_loop", "rd_precharge",
                                        "sdrlevel_ret", "done" }) =>
                  /\ report[p] = << RefMin(env.rd[p]), RefMax(env.rd[p]) >>
                  /\ phy.rdly[p] = Middle(RefMin(env.rd[p]), RefMax(env.rd[p])))

C25_Witness ==
    /\ RdReturned
    /\ \E p, q \in Pins :
           /\ p # q
           /\ ~HasMatch(env.rd[p])
           /\ report[p][1] = ERR_DDRPHY_DELAY
           /\ env.rd[q] = Window(3, 9)
           /\ report[q][1] = 3
           /\ phy.rdly[q] = Middle(3, report[q][2])

\* C27: when write leveling succeeded, every high_skew pin gets the bitslip
\* pulses: its delay is at least 1 and at least the least delay of the
\* high_skew pins, so above the halved threshold.
C27_HighSkewPinsSlip ==
    (BitslipReturned /\ wl_ret = 1) =>
        \A p \in Pins :
            high_skew[p] # 0 =>
                /\ delay[p] >= 1
                /\ delay[p] >= MinSkewDelay(delay, high_skew)
                /\ delay[p] > MinSkewDelay(delay, high_skew) \div 2
                /\ bitslip_thr = MinSkewDelay(delay, high_skew) \div 2
                /\ log.bitslip[p] = BitslipPulses

C27_Witness ==
    /\ BitslipReturned
    /\ wl_ret = 1
    /\ \E p, q \in Pins :
           /\ high_skew[p] = 1 /\ high_skew[q] = 1
           /\ delay[p] < delay[q]
           /\ bitslip_thr = delay[p] \div 2
           /\ log.bitslip[p] = BitslipPulses
           /\ log.bitslip[q] = BitslipPulses

\* C28: at every read command of read_delays the software counter equals
\* the number of increments applied to the selected pin's read-delay line
\* since its reset.
C28_CounterIsTap ==
    [][log'.rd # log.rd =>
           \A p \in Selected(phy.dly_sel) : rd_delay = phy.rdly[p]]_vars

\* A number as the operator may write it: decimal, octal with a leading 0,
\* or hexadecimal after 0x.
OctDigits == { "0", "1", "2", "3", "4", "5", "6", "7" }
Numeral(str) ==
    /\ Len(str) >= 1
    /\ \/ /\ str[1] \in DecDigits \ { "0" }
          /\ \A k \in 1 .. Len(str) : str[k] \in DecDigits
       \/ /\ str[1] = "0"
          /\ \A k \in 2 .. Len(str) : str[k] \in OctDigits
       \/ /\ Len(str) >= 3
          /\ str[1] = "0"
          /\ str[2] \in { "x", "X" }
          /\ \A k \in 3 .. Len(str) : str[k] \in DecDigits \cup HexLetters

\* A required argument is empty, or an argument has characters after (or
\* instead of) the number.  sdrrow's row and sdrrd's DQ may be left out.
Malformed(cmd, args) ==
    \/ cmd \in { "sdrrd", "sdrwr", "sdrrderr" } /\ args[1] = << >>
    \/ \E k \in 1 .. Len(args) : args[k] # << >> /\ ~Numeral(args[k])

\* The address and bank registers, the write buffers, and how often the
\* commands wrote them or issued a DFI command.
DfiState ==
    << sh.pi0_address, sh.pi0_baddress, sh.pird_address, sh.pird_baddress,
       sh.piwr_address, sh.piwr_baddress, sh.wrdata, sh.regw, sh.bufw,
       sh.ncmd >>

\* C24: sdrrow, sdrrd, sdrwr or sdrrderr with an empty required argument or
\* with characters after the number prints its diagnostic and writes no
\* address or bank register, no data buffer and issues no DFI command; with
\* well-formed arguments it does issue its command.
C24_MalformedInputNoEffect ==
    [][sh'.n # sh.n =>
           IF Malformed(sh'.cmd, sh'.args)
           THEN /\ sh'.out # ""
                /\ DfiState' = DfiState
                /\ phy' = phy
                /\ log' = log
                /\ sh'.lanes = sh.lanes
           ELSE sh'.ncmd > sh.ncmd /\ sh'.regw > sh.regw]_vars

C24_Witness ==
    /\ sh.n = 1
    /\ sh.cmd = "sdrrd"
    /\ sh.args = << << "0", "x", "1" >>, << "1", "x" >> >>
    /\ sh.out = "incorrect DQ"
    /\ sh.regw = 0 /\ sh.bufw = 0 /\ sh.ncmd = 0
    /\ phy.row_open = FALSE

\* C29: pin k goes with byte lane DFII_PIX_DATA_SIZE/2-1-k of each phase, and
\* lane DFII_PIX_DATA_SIZE-1-k for reads, everywhere: the lane write_level
\* samples and the lanes read_delays compares are those of the pin dly_sel
\* selects, and sdrrdbuf prints those lanes for DQ group k.
C29_SameLaneMapping ==
    /\ pc \in { "wl_read0", "wl_pre_read", "wl_main_read" } =>
           /\ LaneOfPin(i) = DFII_PIX_DATA_SIZE \div 2 - 1 - i
           /\ Selected(phy.dly_sel) = { PinOfLane(LaneOfPin(i)) }
    /\ pc \in { "rd_min_test", "rd_max_test" } =>
           /\ Selected(phy.dly_sel) = { PinOfLane(i) }
           /\ PinOfLane(i + NPins) = PinOfLane(i)
           /\ \A k \in Selected(phy.dly_sel) : LaneOfPin(k) = i
    /\ (sh.cmd = "sdrrd" /\ sh.out = "" /\ sh.args[2] # << >>) =>
           LET k == strtoul(sh.args[2]).result
           IN  /\ { LaneOfPin(k), LaneOfPin(k) + NPins } \subseteq sh.lanes
               /\ \A l \in sh.lanes : PinOfLane(l) = k
    /\ (sh.cmd = "sdrrderr" /\ sh.out = "") =>
           \A k \in Pins :
               /\ sh.labels[LaneOfPin(k) + 1] = k
               /\ sh.labels[LaneOfPin(k) + NPins + 1] = k

C29_Witness ==
    /\ RdReturned
    /\ wl_ret = 1
    /\ sh.cmd = "sdrrd"
    /\ sh.args[2] = << "0", "x", "1" >>
    /\ 0 \in sh.lanes
    /\ NPins \in sh.lanes
    /\ ~(1 \in sh.lanes)

----------------------------------------------------------------------------
\* C30: the blocks the program holds (returned by malloc, calloc or realloc
\* and not yet freed) are pairwise disjoint, and each lies wholly inside
\* memory that alloc_give handed over.

BlockCells(b) == b.ptr .. (b.ptr + b.n - 1)
GivenCells == UNION { AreaCells(a) : a \in owned.given }

C30_BlocksDisjointInsideGiven ==
    /\ \A b \in owned.blocks : BlockCells(b) \subseteq GivenCells
    /\ \A b1, b2 \in owned.blocks :
          b1 # b2 => BlockCells(b1) \cap BlockCells(b2) = {}

----------------------------------------------------------------------------
\* C31: free(NULL) changes nothing; free of a pointer whose header is not
\* BUSY when it is called (freed before, or joined into a neighbour) aborts
\* and leaves the heap as it was; free of a busy block marks that block IDLE
\* and changes no other cell of the heap, nor root.

\* A step that is a call of free; its argument is al'.objp.
FreeCall == al.pc = "prompt" /\ al'.op = "free" /\ al'.calls = al.calls + 1

C31_FreeSemantics ==
    [][FreeCall =>
        LET objp == al'.objp
        IN  /\ root' = root
            /\ objp = NULL => heap' = heap /\ al'.pc = "prompt"
            /\ objp # NULL /\ Magi(heap, LIST(objp)) # BUSY =>
                  heap' = heap /\ al'.pc = "aborted"
            /\ objp # NULL /\ Magi(heap, LIST(objp)) = BUSY =>
                  /\ al'.pc = "prompt"
                  /\ heap'[LIST(objp)] = IDLE
                  /\ \A c \in Cells : c # LIST(objp) => heap'[c] = heap[c]]_vars

\* free of a pointer malloc returned, whose block has since been joined into
\* its neighbour (the join left 0 in its header), has aborted.
C31_Witness ==
    /\ al.op = "free"
    /\ al.pc = "aborted"
    /\ al.objp \in owned.returned
    /\ Magi(heap, LIST(al.objp)) = 0

----------------------------------------------------------------------------
\* C32: realloc(p, n) with p not NULL: when malloc finds no block it returns
\* NULL and the old block stays allocated, its header and contents as they
\* were; otherwise the old block is freed and the new block begins with the
\* first min(old capacity, n) cells of the old one.  realloc(NULL, n) does
\* what malloc(n) does.

\* realloc is running, or returning.
InRealloc == al.op = "realloc" /\ al.pc \in { "walk", "join", "fit", "ret" }

\* The header and the data of the block at objp, in memory h.
BlockOf(h, objp) == LIST(objp) .. (objp + Size(h, LIST(objp)) - 1)

Min(a, b) == IF a < b THEN a ELSE b

\* The walk of malloc inside realloc(p, n) leaves p's block alone.
C32_WalkKeepsOld ==
    InRealloc /\ al.pc # "ret" /\ al.oldp # NULL =>
        /\ al'.pc # "aborted"
        /\ \A c \in BlockOf(heap, al.oldp) \cap Cells : heap'[c] = heap[c]
        /\ owned' = owned

\* realloc(p, n) returns.
C32_Return ==
    InRealloc /\ al.pc = "ret" /\ al.oldp # NULL =>
        LET oldp == al.oldp
            newp == al.result
            olds == Min(Size(heap, LIST(oldp)), al.n)
        IN  IF newp = NULL
            THEN /\ al'.pc = "prompt" /\ al'.result = NULL
                 /\ heap' = heap
                 /\ owned' = owned
                 /\ Magi(heap, LIST(oldp)) = BUSY
            ELSE /\ al'.pc = "prompt" /\ al'.result = newp
                 /\ Magi(heap', LIST(oldp)) = IDLE
                 /\ oldp \notin { b.ptr : b \in owned'.blocks }
                 /\ [ptr |-> newp, n |-> al.n] \in owned'.blocks
                 /\ \A k \in 0 .. (olds - 1) : heap'[newp + k] = heap[oldp + k]

\* realloc(NULL, n): the call, the walk and the return are malloc's.
C32_NullIsMalloc ==
    /\ al.pc = "prompt" /\ al'.op = "realloc" /\ al'.oldp = NULL
          /\ al'.calls = al.calls + 1 =>
          /\ [al' EXCEPT !.op = "malloc"] = AlCall("malloc", al'.n, NULL)
          /\ UNCHANGED << root, heap, owned >>
    /\ InRealloc /\ al.pc = "ret" /\ al.oldp = NULL =>
          /\ al' = AlDone(al.result)
          /\ heap' = heap
          /\ owned' = IF al.result = NULL THEN owned
                      ELSE Give(owned, al.result, al.n)

C32_ReallocSemantics ==
    [][C32_WalkKeepsOld /\ C32_Return /\ C32_NullIsMalloc]_vars

----------------------------------------------------------------------------
\* C33: for every request size n of size_t, the largest ones included,
\* malloc(n) returns NULL or a block whose header records a capacity of at
\* least n.

C33_CapacityCoversRequest ==
    al.op = "malloc" /\ al.pc = "ret" /\ al.result # NULL =>
        Size(heap, LIST(al.result)) >= al.n

====
